---- MODULE Spec2Model ----
(***************************************************************************)
(* Model of the NFL stat compiler: the season compiler                     *)
(* (espn_schedule_scraper.compile_season_stats), the record extractor      *)
(* (get_player_stats) and the category merge engine over the shared        *)
(* database connection (database_connector.insert_*_stats,                 *)
(* wipe_all_stats_tables).                                                 *)
(*                                                                         *)
(* Values.  A Python value is a tagged record: None, IntV(n) for a native  *)
(* int, StrV(s) for a str, where s is the sequence of its characters,      *)
(* FloatV(s) for a native float, where s is its repr, EmptyList for [].    *)
(* A table is the sequence of its rows in insertion order; a row is a      *)
(* record of column values.  The auto-increment id and the timestamp       *)
(* columns are not read by any code path and are left out.                 *)
(***************************************************************************)
EXTENDS Integers, Sequences, FiniteSets, TLC

----------------------------------------------------------------------------
(* Python values *)

None == [k |-> "none"]

IntV(n) == [k |-> "int", v |-> n]

StrV(s) == [k |-> "str", s |-> s]

FloatV(s) == [k |-> "float", s |-> s]

EmptyList == [k |-> "list"]

(* an exception leaving a call *)
Raised(e) == [k |-> "raise", e |-> e]

Digits == <<"0", "1", "2", "3", "4", "5", "6", "7", "8", "9">>

IsDigit(c) == \E i \in 1..10 : Digits[i] = c

DigitVal(c) == (CHOOSE i \in 1..10 : Digits[i] = c) - 1

(* the whitespace int() and float() pass over at both ends of an ASCII     *)
(* string: blank, tab, line feed, vertical tab, form feed, carriage return *)
NumberSpace == {" ", "\t", "\n", "", "\f", "\r"}

(* the whitespace str.strip() removes: these and the four separators FS,   *)
(* GS, RS, US (characters 28 to 31).  The strings of the model are ASCII.  *)
Whitespace == NumberSpace \cup {"", "", "", ""}

(* str.strip(): leading and trailing whitespace removed *)
RECURSIVE LStrip(_)
LStrip(s) == IF s # <<>> /\ Head(s) \in Whitespace THEN LStrip(Tail(s)) ELSE s

RECURSIVE RStrip(_)
RStrip(s) == IF s # <<>> /\ s[Len(s)] \in Whitespace THEN RStrip(SubSeq(s, 1, Len(s) - 1)) ELSE s

Strip(s) == RStrip(LStrip(s))

(* the string as int() and float() read it: without the whitespace at its  *)
(* ends                                                                    *)
NumStrip(s) ==
    IF \A i \in 1..Len(s) : s[i] \in NumberSpace THEN <<>>
    ELSE SubSeq(s, CHOOSE i \in 1..Len(s) : s[i] \notin NumberSpace /\ \A j \in 1..(i - 1) : s[j] \in NumberSpace,
                   CHOOSE i \in 1..Len(s) : s[i] \notin NumberSpace /\ \A j \in (i + 1)..Len(s) : s[j] \in NumberSpace)

(* c in s *)
Contains(s, c) == \E i \in 1..Len(s) : s[i] = c

(* s.replace(",", "") *)
RemoveCommas(s) == SelectSeq(s, LAMBDA c : c # ",")

(* the digit part of a literal int() and float() accept: decimal digits,   *)
(* a single underscore allowed between two of them                         *)
AllDigits(s) ==
    /\ s # <<>>
    /\ IsDigit(s[1])
    /\ \A i \in 2..Len(s) : IsDigit(s[i]) \/ (s[i] = "_" /\ IsDigit(s[i - 1]) /\ i < Len(s) /\ IsDigit(s[i + 1]))

NoUnderscores(s) == SelectSeq(s, LAMBDA c : c # "_")

(* the number the digits denote, underscores passed over *)
RECURSIVE DigitsValue(_)
DigitsValue(s) ==
    IF s = <<>> THEN 0
    ELSE IF s[Len(s)] = "_" THEN DigitsValue(SubSeq(s, 1, Len(s) - 1))
    ELSE 10 * DigitsValue(SubSeq(s, 1, Len(s) - 1)) + DigitVal(s[Len(s)])

HasSign(s) == s # <<>> /\ (Head(s) = "-" \/ Head(s) = "+")

Unsigned(s) == IF HasSign(s) THEN Tail(s) ELSE s

SignOf(s) == IF s # <<>> /\ Head(s) = "-" THEN -1 ELSE 1

(* the most digits int() converts from a str and str() to one             *)
(* (sys.int_info.default_max_str_digits; the program does not change it)   *)
IntMaxStrDigits == 4300

(* int(s) for a str: whitespace stripped, an optional sign, then decimal   *)
(* digits, at most IntMaxStrDigits of them, leading zeros counted and      *)
(* underscores not; None stands for ValueError.                            *)
PyIntOfStr(s) ==
    LET t == NumStrip(s)
    IN IF AllDigits(Unsigned(t)) /\ Len(NoUnderscores(Unsigned(t))) <= IntMaxStrDigits
       THEN IntV(SignOf(t) * DigitsValue(Unsigned(t)))
       ELSE None

DotPos(s) == IF Contains(s, ".") THEN CHOOSE i \in 1..Len(s) : s[i] = "." /\ \A j \in 1..(i - 1) : s[j] # "." ELSE 0

IntPart(s) == IF DotPos(s) = 0 THEN s ELSE SubSeq(s, 1, DotPos(s) - 1)

FracPart(s) == IF DotPos(s) = 0 THEN <<>> ELSE SubSeq(s, DotPos(s) + 1, Len(s))

(* a decimal literal float() accepts: digits (single underscores between   *)
(* them), at most one point, at least one digit                            *)
IsDecimal(s) == /\ IntPart(s) = <<>> \/ AllDigits(IntPart(s))
                /\ FracPart(s) = <<>> \/ AllDigits(FracPart(s))
                /\ IntPart(s) # <<>> \/ FracPart(s) # <<>>

Lower(c) ==
    CASE c = "I" -> "i" [] c = "N" -> "n" [] c = "F" -> "f" [] c = "T" -> "t"
      [] c = "Y" -> "y" [] c = "A" -> "a" [] c = "E" -> "e" [] OTHER -> c

LowerStr(s) == [i \in 1..Len(s) |-> Lower(s[i])]

IsInfWord(u) == LowerStr(u) \in {<<"i", "n", "f">>, <<"i", "n", "f", "i", "n", "i", "t", "y">>}

IsNanWord(u) == LowerStr(u) = <<"n", "a", "n">>

(* the exponent part of a float literal: the place of its e, 0 if none *)
ExpPos(u) == IF \E i \in 1..Len(u) : Lower(u[i]) = "e" THEN CHOOSE i \in 1..Len(u) : Lower(u[i]) = "e" /\ \A j \in 1..(i - 1) : Lower(u[j]) # "e" ELSE 0

MantissaAt(u, p) == IF p = 0 THEN u ELSE SubSeq(u, 1, p - 1)

ExpStrAt(u, p) == IF p = 0 THEN <<"0">> ELSE SubSeq(u, p + 1, Len(u))

Mantissa(u) == MantissaAt(u, ExpPos(u))

ExpStr(u) == ExpStrAt(u, ExpPos(u))

IsFloatLiteral(u) == IsDecimal(Mantissa(u)) /\ AllDigits(Unsigned(ExpStr(u)))

(* the digits of a mantissa and the place of the decimal point in them *)
DigitsOf(m) == NoUnderscores(IntPart(m) \o FracPart(m))

PlaceOf(m, e) == Len(NoUnderscores(IntPart(m))) + SignOf(e) * DigitsValue(Unsigned(e))

LeadingZeros(d) ==
    IF \A i \in 1..Len(d) : d[i] = "0" THEN Len(d)
    ELSE (CHOOSE i \in 1..Len(d) : d[i] # "0" /\ \A j \in 1..(i - 1) : d[j] = "0") - 1

(* a >= b for two sequences of digits read from the same place, the        *)
(* shorter one continued with zeros                                        *)
DigitsGE(a, b) ==
    \A i \in 1..(IF Len(a) >= Len(b) THEN Len(a) ELSE Len(b)) :
        (IF i <= Len(a) THEN DigitVal(a[i]) ELSE 0) < (IF i <= Len(b) THEN DigitVal(b[i]) ELSE 0) =>
            \E j \in 1..(i - 1) : j <= Len(a) /\ DigitVal(a[j]) > (IF j <= Len(b) THEN DigitVal(b[j]) ELSE 0)

(* the 309 digits of 2^1024 - 2^970, half way between the largest float    *)
(* and 2^1024: float() of a literal of this value or more is inf           *)
FloatLimit ==
    <<"1", "7", "9", "7", "6", "9", "3", "1", "3", "4", "8", "6", "2", "3", "1">> \o
    <<"5", "8", "0", "7", "9", "3", "7", "2", "8", "9", "7", "1", "4", "0", "5">> \o
    <<"3", "0", "3", "4", "1", "5", "0", "7", "9", "9", "3", "4", "1", "3", "2">> \o
    <<"7", "1", "0", "0", "3", "7", "8", "2", "6", "9", "3", "6", "1", "7", "3">> \o
    <<"7", "7", "8", "9", "8", "0", "4", "4", "4", "9", "6", "8", "2", "9", "2">> \o
    <<"7", "6", "4", "7", "5", "0", "9", "4", "6", "6", "4", "9", "0", "1", "7">> \o
    <<"9", "7", "7", "5", "8", "7", "2", "0", "7", "0", "9", "6", "3", "3", "0">> \o
    <<"2", "8", "6", "4", "1", "6", "6", "9", "2", "8", "8", "7", "9", "1", "0">> \o
    <<"9", "4", "6", "5", "5", "5", "5", "4", "7", "8", "5", "1", "9", "4", "0">> \o
    <<"4", "0", "2", "6", "3", "0", "6", "5", "7", "4", "8", "8", "6", "7", "1">> \o
    <<"5", "0", "5", "8", "2", "0", "6", "8", "1", "9", "0", "8", "9", "0", "2">> \o
    <<"0", "0", "0", "7", "0", "8", "3", "8", "3", "6", "7", "6", "2", "7", "3">> \o
    <<"8", "5", "4", "8", "4", "5", "8", "1", "7", "7", "1", "1", "5", "3", "1">> \o
    <<"7", "6", "4", "4", "7", "5", "7", "3", "0", "2", "7", "0", "0", "6", "9">> \o
    <<"8", "5", "5", "5", "7", "1", "3", "6", "6", "9", "5", "9", "6", "2", "2">> \o
    <<"8", "4", "2", "9", "1", "4", "8", "1", "9", "8", "6", "0", "8", "3", "4">> \o
    <<"9", "3", "6", "4", "7", "5", "2", "9", "2", "7", "1", "9", "0", "7", "4">> \o
    <<"1", "6", "8", "4", "4", "4", "3", "6", "5", "5", "1", "0", "7", "0", "4">> \o
    <<"3", "4", "2", "7", "1", "1", "5", "5", "9", "6", "9", "9", "5", "0", "8">> \o
    <<"0", "9", "3", "0", "4", "2", "8", "8", "0", "1", "7", "7", "9", "0", "4">> \o
    <<"1", "7", "4", "4", "9", "7", "7", "9", "2">>

(* digits d with z leading zeros and the point after n of them: the value  *)
(* rounds beyond the largest float and float() gives inf                   *)
OverflowsAt(d, z, n) ==
    /\ z < Len(d)
    /\ \/ n - z > 309
       \/ n - z = 309 /\ DigitsGE(SubSeq(d, z + 1, Len(d)), FloatLimit)

(* the digits after the point of 1 - 2^(e-53) for e = -1 .. 30, in this    *)
(* order: an integer m with 2^e < m <= 2^(e+1) has the float below it at   *)
(* the distance 2^(e-52), and this is the fraction half way between them   *)
RoundLimits ==
    <<
       <<"9", "9", "9", "9", "9", "9", "9", "9", "9", "9", "9", "9", "9", "9", "9", "9", "4", "4", "4", "8", "8", "8", "4", "8", "7", "6", "8", "7", "4", "2", "1", "7", "2", "9", "7", "8", "8", "1", "8", "4", "1", "6", "5", "9", "5", "4", "5", "8", "9", "8", "4", "3", "7", "5">>,
       <<"9", "9", "9", "9", "9", "9", "9", "9", "9", "9", "9", "9", "9", "9", "9", "8", "8", "8", "9", "7", "7", "6", "9", "7", "5", "3", "7", "4", "8", "4", "3", "4", "5", "9", "5", "7", "6", "3", "6", "8", "3", "3", "1", "9", "0", "9", "1", "7", "9", "6", "8", "7", "5">>,
       <<"9", "9", "9", "9", "9", "9", "9", "9", "9", "9", "9", "9", "9", "9", "9", "7", "7", "7", "9", "5", "5", "3", "9", "5", "0", "7", "4", "9", "6", "8", "6", "9", "1", "9", "1", "5", "2", "7", "3", "6", "6", "6", "3", "8", "1", "8", "3", "5", "9", "3", "7", "5">>,
       <<"9", "9", "9", "9", "9", "9", "9", "9", "9", "9", "9", "9", "9", "9", "9", "5", "5", "5", "9", "1", "0", "7", "9", "0", "1", "4", "9", "9", "3", "7", "3", "8", "3", "8", "3", "0", "5", "4", "7", "3", "3", "2", "7", "6", "3", "6", "7", "1", "8", "7", "5">>,
       <<"9", "9", "9", "9", "9", "9", "9", "9", "9", "9", "9", "9", "9", "9", "9", "1", "1", "1", "8", "2", "1", "5", "8", "0", "2", "9", "9", "8", "7", "4", "7", "6", "7", "6", "6", "1", "0", "9", "4", "6", "6", "5", "5", "2", "7", "3", "4", "3", "7", "5">>,
       <<"9", "9", "9", "9", "9", "9", "9", "9", "9", "9", "9", "9", "9", "9", "8", "2", "2", "3", "6", "4", "3", "1", "6", "0", "5", "9", "9", "7", "4", "9", "5", "3", "5", "3", "2", "2", "1", "8", "9", "3", "3", "1", "0", "5", "4", "6", "8", "7", "5">>,
       <<"9", "9", "9", "9", "9", "9", "9", "9", "9", "9", "9", "9", "9", "9", "6", "4", "4", "7", "2", "8", "6", "3", "2", "1", "1", "9", "9", "4", "9", "9", "0", "7", "0", "6", "4", "4", "3", "7", "8", "6", "6", "2", "1", "0", "9", "3", "7", "5">>,
       <<"9", "9", "9", "9", "9", "9", "9", "9", "9", "9", "9", "9", "9", "9", "2", "8", "9", "4", "5", "7", "2", "6", "4", "2", "3", "9", "8", "9", "9", "8", "1", "4", "1", "2", "8", "8", "7", "5", "7", "3", "2", "4", "2", "1", "8", "7", "5">>,
       <<"9", "9", "9", "9", "9", "9", "9", "9", "9", "9", "9", "9", "9", "8", "5", "7", "8", "9", "1", "4", "5", "2", "8", "4", "7", "9", "7", "9", "9", "6", "2", "8", "2", "5", "7", "7", "5", "1", "4", "6", "4", "8", "4", "3", "7", "5">>,
       <<"9", "9", "9", "9", "9", "9", "9", "9", "9", "9", "9", "9", "9", "7", "1", "5", "7", "8", "2", "9", "0", "5", "6", "9", "5", "9", "5", "9", "9", "2", "5", "6", "5", "1", "5", "5", "0", "2", "9", "2", "9", "6", "8", "7", "5">>,
       <<"9", "9", "9", "9", "9", "9", "9", "9", "9", "9", "9", "9", "9", "4", "3", "1", "5", "6", "5", "8", "1", "1", "3", "9", "1", "9", "1", "9", "8", "5", "1", "3", "0", "3", "1", "0", "0", "5", "8", "5", "9", "3", "7", "5">>,
       <<"9", "9", "9", "9", "9", "9", "9", "9", "9", "9", "9", "9", "8", "8", "6", "3", "1", "3", "1", "6", "2", "2", "7", "8", "3", "8", "3", "9", "7", "0", "2", "6", "0", "6", "2", "0", "1", "1", "7", "1", "8", "7", "5">>,
       <<"9", "9", "9", "9", "9", "9", "9", "9", "9", "9", "9", "9", "7", "7", "2", "6", "2", "6", "3", "2", "4", "5", "5", "6", "7", "6", "7", "9", "4", "0", "5", "2", "1", "2", "4", "0", "2", "3", "4", "3", "7", "5">>,
       <<"9", "9", "9", "9", "9", "9", "9", "9", "9", "9", "9", "9", "5", "4", "5", "2", "5", "2", "6", "4", "9", "1", "1", "3", "5", "3", "5", "8", "8", "1", "0", "4", "2", "4", "8", "0", "4", "6", "8", "7", "5">>,
       <<"9", "9", "9", "9", "9", "9", "9", "9", "9", "9", "9", "9", "0", "9", "0", "5", "0", "5", "2", "9", "8", "2", "2", "7", "0", "7", "1", "7", "6", "2", "0", "8", "4", "9", "6", "0", "9", "3", "7", "5">>,
       <<"9", "9", "9", "9", "9", "9", "9", "9", "9", "9", "9", "8", "1", "8", "1", "0", "1", "0", "5", "9", "6", "4", "5", "4", "1", "4", "3", "5", "2", "4", "1", "6", "9", "9", "2", "1", "8", "7", "5">>,
       <<"9", "9", "9", "9", "9", "9", "9", "9", "9", "9", "9", "6", "3", "6", "2", "0", "2", "1", "1", "9", "2", "9", "0", "8", "2", "8", "7", "0", "4", "8", "3", "3", "9", "8", "4", "3", "7", "5">>,
       <<"9", "9", "9", "9", "9", "9", "9", "9", "9", "9", "9", "2", "7", "2", "4", "0", "4", "2", "3", "8", "5", "8", "1", "6", "5", "7", "4", "0", "9", "6", "6", "7", "9", "6", "8", "7", "5">>,
       <<"9", "9", "9", "9", "9", "9", "9", "9", "9", "9", "8", "5", "4", "4", "8", "0", "8", "4", "7", "7", "1", "6", "3", "3", "1", "4", "8", "1", "9", "3", "3", "5", "9", "3", "7", "5">>,
       <<"9", "9", "9", "9", "9", "9", "9", "9", "9", "9", "7", "0", "8", "9", "6", "1", "6", "9", "5", "4", "3", "2", "6", "6", "2", "9", "6", "3", "8", "6", "7", "1", "8", "7", "5">>,
       <<"9", "9", "9", "9", "9", "9", "9", "9", "9", "9", "4", "1", "7", "9", "2", "3", "3", "9", "0", "8", "6", "5", "3", "2", "5", "9", "2", "7", "7", "3", "4", "3", "7", "5">>,
       <<"9", "9", "9", "9", "9", "9", "9", "9", "9", "8", "8", "3", "5", "8", "4", "6", "7", "8", "1", "7", "3", "0", "6", "5", "1", "8", "5", "5", "4", "6", "8", "7", "5">>,
       <<"9", "9", "9", "9", "9", "9", "9", "9", "9", "7", "6", "7", "1", "6", "9", "3", "5", "6", "3", "4", "6", "1", "3", "0", "3", "7", "1", "0", "9", "3", "7", "5">>,
       <<"9", "9", "9", "9", "9", "9", "9", "9", "9", "5", "3", "4", "3", "3", "8", "7", "1", "2", "6", "9", "2", "2", "6", "0", "7", "4", "2", "1", "8", "7", "5">>,
       <<"9", "9", "9", "9", "9", "9", "9", "9", "9", "0", "6", "8", "6", "7", "7", "4", "2", "5", "3", "8", "4", "5", "2", "1", "4", "8", "4", "3", "7", "5">>,
       <<"9", "9", "9", "9", "9", "9", "9", "9", "8", "1", "3", "7", "3", "5", "4", "8", "5", "0", "7", "6", "9", "0", "4", "2", "9", "6", "8", "7", "5">>,
       <<"9", "9", "9", "9", "9", "9", "9", "9", "6", "2", "7", "4", "7", "0", "9", "7", "0", "1", "5", "3", "8", "0", "8", "5", "9", "3", "7", "5">>,
       <<"9", "9", "9", "9", "9", "9", "9", "9", "2", "5", "4", "9", "4", "1", "9", "4", "0", "3", "0", "7", "6", "1", "7", "1", "8", "7", "5">>,
       <<"9", "9", "9", "9", "9", "9", "9", "8", "5", "0", "9", "8", "8", "3", "8", "8", "0", "6", "1", "5", "2", "3", "4", "3", "7", "5">>,
       <<"9", "9", "9", "9", "9", "9", "9", "7", "0", "1", "9", "7", "6", "7", "7", "6", "1", "2", "3", "0", "4", "6", "8", "7", "5">>,
       <<"9", "9", "9", "9", "9", "9", "9", "4", "0", "3", "9", "5", "3", "5", "5", "2", "2", "4", "6", "0", "9", "3", "7", "5">>,
       <<"9", "9", "9", "9", "9", "9", "8", "8", "0", "7", "9", "0", "7", "1", "0", "4", "4", "9", "2", "1", "8", "7", "5">>
    >>

(* the e with 2^e < m <= 2^(e+1) for an integer 1 <= m <= 2^31: the floats *)
(* below m are 2^(e-52) apart                                              *)
BinadeBelow(m) == IF m > 2^30 THEN 30 ELSE CHOOSE e \in -1..29 : m <= 2^(e + 1) /\ (e = -1 \/ m > 2^e)

(* float() rounds to the nearest binary64, ties to even: the value n0 plus *)
(* the fraction of digits frac becomes n0 + 1 when the fraction is at      *)
(* least the limit of n0 + 1 (a tie goes to n0 + 1, whose significand is   *)
(* even); such a fraction begins with six 9s at least                      *)
RoundsUp(n0, frac) ==
    /\ Len(frac) >= 6
    /\ \A i \in 1..6 : frac[i] = "9"
    /\ DigitsGE(frac, RoundLimits[BinadeBelow(n0 + 1) + 2])

IntDigitsAt(d, n) == [i \in 1..n |-> IF i <= Len(d) THEN d[i] ELSE "0"]

FracDigitsAt(d, n) ==
    IF n >= Len(d) THEN <<>>
    ELSE IF n >= 0 THEN SubSeq(d, n + 1, Len(d))
    ELSE [i \in 1..(0 - n) |-> "0"] \o d

(* a / b rounded to the nearest integer, a tie to the even one *)
RoundHalfEven(a, b) ==
    IF 2 * (a % b) > b \/ (2 * (a % b) = b /\ (a \div b) % 2 = 1) THEN (a \div b) + 1 ELSE a \div b

(* the e with 2^e <= p/q < 2^(e+1), for 1 <= p/q < 2^1024 *)
ExponentOf(p, q) == CHOOSE e \in 0..1023 : 2^e * q <= p /\ p < 2^(e + 1) * q

(* int() of the binary64 nearest to p/q >= 1: p/q rounded to a multiple of *)
(* 2^(e-52), the distance of the floats from 2^e to 2^(e+1)                *)
NearestFloatInt(p, q) ==
    IF ExponentOf(p, q) >= 52
    THEN RoundHalfEven(p, q * 2^(ExponentOf(p, q) - 52)) * 2^(ExponentOf(p, q) - 52)
    ELSE RoundHalfEven(p * 2^(52 - ExponentOf(p, q)), q) \div 2^(52 - ExponentOf(p, q))

(* int() of the float nearest to the value.  With an integer part n0 below *)
(* 2^31 the float keeps n0 and only the fraction can round up to the next  *)
(* integer, which is read off the digits; from there on the value is       *)
(* rounded as a quotient of integers.                                      *)
TruncAt(d, z, n) ==
    IF z = Len(d) THEN 0
    ELSE LET n0 == IF n <= 0 THEN 0 ELSE DigitsValue(IntDigitsAt(d, n))
             frac == FracDigitsAt(d, n)
         IN IF n0 \div 2 < 2^30
            THEN (IF RoundsUp(n0, frac) THEN n0 + 1 ELSE n0)
            ELSE NearestFloatInt(n0 * 10^Len(frac) + DigitsValue(frac), 10^Len(frac))

(* int(x) of the float a finite literal of these digits denotes *)
DigitsToInt(sign, d, z, n) == IF OverflowsAt(d, z, n) THEN Raised("OverflowError") ELSE IntV(sign * TruncAt(d, z, n))

LiteralToInt(sign, d, n) == DigitsToInt(sign, d, LeadingZeros(d), n)

(* int(float(t)) of a stripped string, of sign sign and unsigned part u *)
FloatToInt(sign, u) ==
    IF IsNanWord(u) THEN Raised("ValueError")
    ELSE IF IsInfWord(u) THEN Raised("OverflowError")
    ELSE IF ~IsFloatLiteral(u) THEN Raised("ValueError")
    ELSE LiteralToInt(sign, DigitsOf(Mantissa(u)), PlaceOf(Mantissa(u), ExpStr(u)))

SignedToInt(t) == FloatToInt(SignOf(t), Unsigned(t))

(* int(float(s)) for a str, and int(x) for a float x of repr s: the value  *)
(* rounded to the nearest float, then truncated toward zero; ValueError    *)
(* for a string that is no float literal and for nan, OverflowError for an *)
(* infinity.                                                               *)
PyIntOfFloatStr(s) == SignedToInt(NumStrip(s))

(* the decimal expansion of a natural number *)
RECURSIVE DecimalDigits(_)
DecimalDigits(n) == IF n < 10 THEN <<Digits[n + 1]>> ELSE DecimalDigits(n \div 10) \o <<Digits[(n % 10) + 1]>>

(* str(n) raises ValueError: n has more than IntMaxStrDigits digits *)
StrTooLong(n) == Len(DecimalDigits(IF n < 0 THEN -n ELSE n)) > IntMaxStrDigits

(* str(n) for an int, also as an f-string renders it: the characters, or   *)
(* the ValueError of an int of too many digits                             *)
IntToStr(n) ==
    IF StrTooLong(n) THEN Raised("ValueError")
    ELSE IF n < 0 THEN <<"-">> \o DecimalDigits(-n) ELSE DecimalDigits(n)

(* str(v): the characters, or the ValueError of IntToStr *)
PyStr(x) ==
    IF x.k = "int" THEN IntToStr(x.v)
    ELSE IF x.k = "list" THEN <<"[", "]">>
    ELSE IF x.k = "none" THEN <<"N", "o", "n", "e">>
    ELSE x.s

(* str(v) raises *)
StrRaises(x) == x.k = "int" /\ StrTooLong(x.v)

----------------------------------------------------------------------------
(* Stat normalizers *)

(* except Exception: None; except ValueError: None *)
CatchException(r) == IF r.k = "raise" THEN None ELSE r

CatchValueError(r) == IF r = Raised("ValueError") THEN None ELSE r

(* the first result unless it is None (the exception of the first try) *)
OrElse(a, b) == IF a # None THEN a ELSE b

(* database_connector._to_int: int(v), else int(float(str(v) without       *)
(* commas)), else None on any exception                                    *)
ToIntStr(s) == OrElse(PyIntOfStr(s), CatchException(PyIntOfFloatStr(RemoveCommas(s))))

_to_int(v) ==
    IF v.k = "none" THEN None
    ELSE IF v.k = "int" THEN v
    ELSE IF v.k = "list" THEN None
    ELSE IF v.k = "float" THEN CatchException(PyIntOfFloatStr(v.s))
    ELSE ToIntStr(v.s)

(* `n or 0` for an Optional[int] *)
OrZero(n) == IF n = None THEN 0 ELSE n.v

_int_or_zero(v) == OrZero(_to_int(v))

(* mutant: the incoming value is taken *)
MaxTakesSecond(a, b) == b

Max(a, b) == IF a >= b THEN a ELSE b

SlashPos(s) == IF Contains(s, "/") THEN CHOOSE i \in 1..Len(s) : s[i] = "/" /\ \A j \in 1..(i - 1) : s[j] # "/" ELSE 0

(* to_pair of _merge_completions: <<left, right>> *)
to_pair(v) ==
    IF v.k = "none" THEN <<None, None>>
    ELSE IF StrRaises(v) THEN Raised("ValueError")
    ELSE LET s == Strip(PyStr(v))
             p == SlashPos(s)
         IN IF p > 0
            THEN <<_to_int(StrV(SubSeq(s, 1, p - 1))), _to_int(StrV(SubSeq(s, p + 1, Len(s))))>>
            ELSE <<_to_int(StrV(s)), None>>

(* nothing in _merge_completions catches the ValueError of str(): that of *)
(* to_pair on a native int, or that of the sums it formats                 *)
_merge_completions(existing, incoming) ==
    IF StrRaises(existing) \/ StrRaises(incoming) THEN Raised("ValueError")
    ELSE LET e == to_pair(existing)
             i == to_pair(incoming)
             left_sum == OrZero(e[1]) + OrZero(i[1])
             right_sum == OrZero(e[2]) + OrZero(i[2])
         IN IF e[1] = None /\ e[2] = None /\ i[1] = None /\ i[2] = None THEN None
            ELSE IF e[2] # None \/ i[2] # None
                 THEN (IF StrTooLong(left_sum) \/ StrTooLong(right_sum) THEN Raised("ValueError")
                       ELSE StrV(IntToStr(left_sum) \o <<"/">> \o IntToStr(right_sum)))
                 ELSE (IF StrTooLong(left_sum) THEN Raised("ValueError") ELSE StrV(IntToStr(left_sum)))

(* espn_schedule_scraper._parse_int: only the ValueError of the string     *)
(* branch is caught                                                        *)
ParseStripped(v) == IF Contains(v, "-") \/ Contains(v, "/") THEN None ELSE CatchValueError(PyIntOfFloatStr(RemoveCommas(v)))

_parse_int(value) ==
    IF value.k = "none" THEN None
    ELSE IF value.k = "int" THEN value
    ELSE IF value.k = "float" THEN PyIntOfFloatStr(value.s)
    ELSE IF value.k = "list" THEN None
    ELSE ParseStripped(Strip(value.s))

(* espn_schedule_scraper._safe_stat: stats[idx] with idx counted from 0 *)
_safe_stat(stats, idx) == IF idx + 1 <= Len(stats) THEN _parse_int(stats[idx + 1]) ELSE None

----------------------------------------------------------------------------
(* Raw record extractor.  A game payload is boxscore.players: a sequence   *)
(* of team entries [team_id, team_name, statistics], statistics a sequence *)
(* of groups [name, athletes], an athlete entry [id, displayName,          *)
(* headshot, stats] with stats the positional sequence of tokens.          *)

Categories == <<"passing", "rushing", "receiving", "fumbles", "defensive", "interceptions">>

RECURSIVE Flatten(_)
Flatten(ss) == IF ss = <<>> THEN <<>> ELSE Head(ss) \o Flatten(Tail(ss))

(* completions_attempts_str of get_player_stats: stats[0] kept as a string *)
CompletionsAttemptsStr(token) ==
    IF token.k = "str" /\ Contains(token.s, "-") THEN token
    ELSE IF token.k = "none" THEN None
    ELSE IF StrRaises(token) THEN Raised("ValueError")
    ELSE StrV(PyStr(token))

PassingStats(team, athlete) ==
    [team_id |-> team.team_id, team_name |-> team.team_name, player_id |-> athlete.id,
     player_name |-> athlete.displayName, player_headshot_url |-> athlete.headshot,
     completions_attempts |-> CompletionsAttemptsStr(athlete.stats[1]),
     passing_yards |-> _safe_stat(athlete.stats, 1),
     passing_touchdowns |-> _safe_stat(athlete.stats, 3),
     interceptions |-> _safe_stat(athlete.stats, 4),
     sacks |-> _safe_stat(athlete.stats, 5)]

(* mutant: the touchdowns are read one position early, from the average *)
RushingStatsShifted(team, athlete) ==
    [team_id |-> team.team_id, team_name |-> team.team_name, player_id |-> athlete.id,
     player_name |-> athlete.displayName, player_headshot_url |-> athlete.headshot,
     rushing_attempts |-> _safe_stat(athlete.stats, 0),
     rushing_yards |-> _safe_stat(athlete.stats, 1),
     rushing_touchdowns |-> _safe_stat(athlete.stats, 2),
     longest_run |-> _safe_stat(athlete.stats, 4)]

RushingStats(team, athlete) ==
    [team_id |-> team.team_id, team_name |-> team.team_name, player_id |-> athlete.id,
     player_name |-> athlete.displayName, player_headshot_url |-> athlete.headshot,
     rushing_attempts |-> _safe_stat(athlete.stats, 0),
     rushing_yards |-> _safe_stat(athlete.stats, 1),
     rushing_touchdowns |-> _safe_stat(athlete.stats, 3),
     longest_run |-> _safe_stat(athlete.stats, 4)]

ReceivingStats(team, athlete) ==
    [team_id |-> team.team_id, team_name |-> team.team_name, player_id |-> athlete.id,
     player_name |-> athlete.displayName, player_headshot_url |-> athlete.headshot,
     receptions |-> _safe_stat(athlete.stats, 0),
     receiving_yards |-> _safe_stat(athlete.stats, 1),
     receiving_touchdowns |-> _safe_stat(athlete.stats, 3),
     longest_reception |-> _safe_stat(athlete.stats, 4),
     targets |-> _safe_stat(athlete.stats, 5)]

FumblesStats(team, athlete) ==
    [team_id |-> team.team_id, team_name |-> team.team_name, player_id |-> athlete.id,
     player_name |-> athlete.displayName, player_headshot_url |-> athlete.headshot,
     fumbles |-> _safe_stat(athlete.stats, 0),
     fumbles_lost |-> _safe_stat(athlete.stats, 1),
     fumbles_recovered |-> _safe_stat(athlete.stats, 2)]

DefensiveStats(team, athlete) ==
    [team_id |-> team.team_id, team_name |-> team.team_name, player_id |-> athlete.id,
     player_name |-> athlete.displayName, player_headshot_url |-> athlete.headshot,
     total_tackles |-> _safe_stat(athlete.stats, 0),
     solo_tackles |-> _safe_stat(athlete.stats, 1),
     sacks |-> _safe_stat(athlete.stats, 2),
     tackles_for_loss |-> _safe_stat(athlete.stats, 3),
     passes_defended |-> _safe_stat(athlete.stats, 4),
     qb_hits |-> _safe_stat(athlete.stats, 5),
     defensive_touchdowns |-> _safe_stat(athlete.stats, 6)]

InterceptionsStats(team, athlete) ==
    [team_id |-> team.team_id, team_name |-> team.team_name, player_id |-> athlete.id,
     player_name |-> athlete.displayName, player_headshot_url |-> athlete.headshot,
     interceptions |-> _safe_stat(athlete.stats, 0),
     interception_yards |-> _safe_stat(athlete.stats, 1),
     interception_touchdowns |-> _safe_stat(athlete.stats, 2)]

MakeRecord(c, team, athlete) ==
    CASE c = 1 -> PassingStats(team, athlete)
      [] c = 2 -> RushingStats(team, athlete)
      [] c = 3 -> ReceivingStats(team, athlete)
      [] c = 4 -> FumblesStats(team, athlete)
      [] c = 5 -> DefensiveStats(team, athlete)
      [] c = 6 -> InterceptionsStats(team, athlete)

(* the records of the groups named Categories[c] of one team entry, in     *)
(* the order the loops of get_player_stats append them                     *)
TeamRecords(c, team) ==
    Flatten([g \in 1..Len(team.statistics) |->
        IF team.statistics[g].name = Categories[c]
        THEN [a \in 1..Len(team.statistics[g].athletes) |-> MakeRecord(c, team, team.statistics[g].athletes[a])]
        ELSE <<>>])

CategoryRecords(c, payload) == Flatten([p \in 1..Len(payload) |-> TeamRecords(c, payload[p])])

(* the positions of the stats array each category reads, in the order of   *)
(* the _safe_stat calls                                                    *)
MappedIndices(c) ==
    CASE c = 1 -> <<0, 1, 3, 4, 5>>
      [] c = 2 -> <<0, 1, 3, 4>>
      [] c = 3 -> <<0, 1, 3, 4, 5>>
      [] c = 4 -> <<0, 1, 2>>
      [] c = 5 -> <<0, 1, 2, 3, 4, 5, 6>>
      [] c = 6 -> <<0, 1, 2>>

IsRaised(r) == r.k = "raise"

ErrorNames(rs) == [j \in 1..Len(rs) |-> rs[j].e]

(* the exceptions the reads of one athlete entry raise, in order: for      *)
(* passing the IndexError of athlete.get("stats", [None])[0] on an empty   *)
(* stats array or the ValueError of str(completions_attempts), and those   *)
(* of _parse_int                                                           *)
AthleteErrors(c, athlete) ==
    (IF c = 1 /\ athlete.stats = <<>> THEN <<"IndexError">>
     ELSE IF c = 1 /\ StrRaises(athlete.stats[1]) THEN <<"ValueError">>
     ELSE <<>>)
    \o ErrorNames(SelectSeq([j \in 1..Len(MappedIndices(c)) |-> _safe_stat(athlete.stats, MappedIndices(c)[j])], IsRaised))

CategoryIndex(name) == IF \E c \in 1..6 : Categories[c] = name THEN CHOOSE c \in 1..6 : Categories[c] = name ELSE 0

GroupErrors(group) ==
    IF CategoryIndex(group.name) = 0 THEN <<>>
    ELSE Flatten([a \in 1..Len(group.athletes) |-> AthleteErrors(CategoryIndex(group.name), group.athletes[a])])

(* the exceptions in the order of the loops over teams, groups, athletes *)
ExtractErrors(payload) ==
    Flatten([p \in 1..Len(payload) |-> Flatten([g \in 1..Len(payload[p].statistics) |-> GroupErrors(payload[p].statistics[g])])])

(* an exception leaves get_player_stats: nothing in it catches one *)
ExtractRaises(payload) == ExtractErrors(payload) # <<>>

(* get_player_stats: the six category lists, in the order of Categories *)
get_player_stats(payload) == [c \in 1..6 |-> CategoryRecords(c, payload)]

----------------------------------------------------------------------------
(* Category merge engine: the row an insert_*_stats function writes for    *)
(* one record s, when no row of the player exists (INSERT) and when the    *)
(* SELECT returned row (UPDATE).                                           *)

InsertedPassing(s) ==
    [team_id |-> s.team_id, team_name |-> s.team_name, player_id |-> s.player_id,
     player_name |-> s.player_name, player_headshot_url |-> s.player_headshot_url,
     completions_attempts |-> s.completions_attempts,
     passing_yards |-> IntV(_int_or_zero(s.passing_yards)),
     passing_touchdowns |-> IntV(_int_or_zero(s.passing_touchdowns)),
     interceptions |-> IntV(_int_or_zero(s.interceptions)),
     sacks |-> IntV(_int_or_zero(s.sacks))]

UpdatedPassing(row, s) ==
    [team_id |-> s.team_id, team_name |-> s.team_name, player_id |-> s.player_id,
     player_name |-> s.player_name, player_headshot_url |-> s.player_headshot_url,
     completions_attempts |-> _merge_completions(row.completions_attempts, s.completions_attempts),
     passing_yards |-> IntV(_int_or_zero(row.passing_yards) + _int_or_zero(s.passing_yards)),
     passing_touchdowns |-> IntV(_int_or_zero(row.passing_touchdowns) + _int_or_zero(s.passing_touchdowns)),
     interceptions |-> IntV(_int_or_zero(row.interceptions) + _int_or_zero(s.interceptions)),
     sacks |-> IntV(_int_or_zero(row.sacks) + _int_or_zero(s.sacks))]

InsertedRushing(s) ==
    [team_id |-> s.team_id, team_name |-> s.team_name, player_id |-> s.player_id,
     player_name |-> s.player_name, player_headshot_url |-> s.player_headshot_url,
     rushing_attempts |-> IntV(_int_or_zero(s.rushing_attempts)),
     rushing_yards |-> IntV(_int_or_zero(s.rushing_yards)),
     rushing_touchdowns |-> IntV(_int_or_zero(s.rushing_touchdowns)),
     longest_run |-> _to_int(s.longest_run)]

(* mutant: the UPDATE writes the incoming values over the stored ones *)
UpdatedRushingOverwrite(row, s) == InsertedRushing(s)

UpdatedRushing(row, s) ==
    [team_id |-> s.team_id, team_name |-> s.team_name, player_id |-> s.player_id,
     player_name |-> s.player_name, player_headshot_url |-> s.player_headshot_url,
     rushing_attempts |-> IntV(_int_or_zero(row.rushing_attempts) + _int_or_zero(s.rushing_attempts)),
     rushing_yards |-> IntV(_int_or_zero(row.rushing_yards) + _int_or_zero(s.rushing_yards)),
     rushing_touchdowns |-> IntV(_int_or_zero(row.rushing_touchdowns) + _int_or_zero(s.rushing_touchdowns)),
     longest_run |-> IntV(Max(OrZero(_to_int(row.longest_run)), OrZero(_to_int(s.longest_run))))]

InsertedReceiving(s) ==
    [team_id |-> s.team_id, team_name |-> s.team_name, player_id |-> s.player_id,
     player_name |-> s.player_name, player_headshot_url |-> s.player_headshot_url,
     receptions |-> IntV(_int_or_zero(s.receptions)),
     receiving_yards |-> IntV(_int_or_zero(s.receiving_yards)),
     receiving_touchdowns |-> IntV(_int_or_zero(s.receiving_touchdowns)),
     longest_reception |-> _to_int(s.longest_reception),
     targets |-> IntV(_int_or_zero(s.targets))]

UpdatedReceiving(row, s) ==
    [team_id |-> s.team_id, team_name |-> s.team_name, player_id |-> s.player_id,
     player_name |-> s.player_name, player_headshot_url |-> s.player_headshot_url,
     receptions |-> IntV(_int_or_zero(row.receptions) + _int_or_zero(s.receptions)),
     receiving_yards |-> IntV(_int_or_zero(row.receiving_yards) + _int_or_zero(s.receiving_yards)),
     receiving_touchdowns |-> IntV(_int_or_zero(row.receiving_touchdowns) + _int_or_zero(s.receiving_touchdowns)),
     longest_reception |-> IntV(Max(OrZero(_to_int(row.longest_reception)), OrZero(_to_int(s.longest_reception)))),
     targets |-> IntV(_int_or_zero(row.targets) + _int_or_zero(s.targets))]

InsertedFumbles(s) ==
    [team_id |-> s.team_id, team_name |-> s.team_name, player_id |-> s.player_id,
     player_name |-> s.player_name, player_headshot_url |-> s.player_headshot_url,
     fumbles |-> IntV(_int_or_zero(s.fumbles)),
     fumbles_lost |-> IntV(_int_or_zero(s.fumbles_lost)),
     fumbles_recovered |-> IntV(_int_or_zero(s.fumbles_recovered))]

(* mutant: the UPDATE leaves the identity columns as stored *)
UpdatedFumblesKeepIdentity(row, s) ==
    [team_id |-> row.team_id, team_name |-> row.team_name, player_id |-> row.player_id,
     player_name |-> row.player_name, player_headshot_url |-> row.player_headshot_url,
     fumbles |-> IntV(_int_or_zero(row.fumbles) + _int_or_zero(s.fumbles)),
     fumbles_lost |-> IntV(_int_or_zero(row.fumbles_lost) + _int_or_zero(s.fumbles_lost)),
     fumbles_recovered |-> IntV(_int_or_zero(row.fumbles_recovered) + _int_or_zero(s.fumbles_recovered))]

UpdatedFumbles(row, s) ==
    [team_id |-> s.team_id, team_name |-> s.team_name, player_id |-> s.player_id,
     player_name |-> s.player_name, player_headshot_url |-> s.player_headshot_url,
     fumbles |-> IntV(_int_or_zero(row.fumbles) + _int_or_zero(s.fumbles)),
     fumbles_lost |-> IntV(_int_or_zero(row.fumbles_lost) + _int_or_zero(s.fumbles_lost)),
     fumbles_recovered |-> IntV(_int_or_zero(row.fumbles_recovered) + _int_or_zero(s.fumbles_recovered))]

InsertedDefensive(s) ==
    [team_id |-> s.team_id, team_name |-> s.team_name, player_id |-> s.player_id,
     player_name |-> s.player_name, player_headshot_url |-> s.player_headshot_url,
     total_tackles |-> IntV(_int_or_zero(s.total_tackles)),
     solo_tackles |-> IntV(_int_or_zero(s.solo_tackles)),
     sacks |-> IntV(_int_or_zero(s.sacks)),
     tackles_for_loss |-> IntV(_int_or_zero(s.tackles_for_loss)),
     passes_defended |-> IntV(_int_or_zero(s.passes_defended)),
     qb_hits |-> IntV(_int_or_zero(s.qb_hits)),
     defensive_touchdowns |-> IntV(_int_or_zero(s.defensive_touchdowns))]

UpdatedDefensive(row, s) ==
    [team_id |-> s.team_id, team_name |-> s.team_name, player_id |-> s.player_id,
     player_name |-> s.player_name, player_headshot_url |-> s.player_headshot_url,
     total_tackles |-> IntV(_int_or_zero(row.total_tackles) + _int_or_zero(s.total_tackles)),
     solo_tackles |-> IntV(_int_or_zero(row.solo_tackles) + _int_or_zero(s.solo_tackles)),
     sacks |-> IntV(_int_or_zero(row.sacks) + _int_or_zero(s.sacks)),
     tackles_for_loss |-> IntV(_int_or_zero(row.tackles_for_loss) + _int_or_zero(s.tackles_for_loss)),
     passes_defended |-> IntV(_int_or_zero(row.passes_defended) + _int_or_zero(s.passes_defended)),
     qb_hits |-> IntV(_int_or_zero(row.qb_hits) + _int_or_zero(s.qb_hits)),
     defensive_touchdowns |-> IntV(_int_or_zero(row.defensive_touchdowns) + _int_or_zero(s.defensive_touchdowns))]

InsertedInterceptions(s) ==
    [team_id |-> s.team_id, team_name |-> s.team_name, player_id |-> s.player_id,
     player_name |-> s.player_name, player_headshot_url |-> s.player_headshot_url,
     interceptions |-> IntV(_int_or_zero(s.interceptions)),
     interception_yards |-> IntV(_int_or_zero(s.interception_yards)),
     interception_touchdowns |-> IntV(_int_or_zero(s.interception_touchdowns))]

UpdatedInterceptions(row, s) ==
    [team_id |-> s.team_id, team_name |-> s.team_name, player_id |-> s.player_id,
     player_name |-> s.player_name, player_headshot_url |-> s.player_headshot_url,
     interceptions |-> IntV(_int_or_zero(row.interceptions) + _int_or_zero(s.interceptions)),
     interception_yards |-> IntV(_int_or_zero(row.interception_yards) + _int_or_zero(s.interception_yards)),
     interception_touchdowns |-> IntV(_int_or_zero(row.interception_touchdowns) + _int_or_zero(s.interception_touchdowns))]

InsertedRow(c, s) ==
    CASE c = 1 -> InsertedPassing(s)
      [] c = 2 -> InsertedRushing(s)
      [] c = 3 -> InsertedReceiving(s)
      [] c = 4 -> InsertedFumbles(s)
      [] c = 5 -> InsertedDefensive(s)
      [] c = 6 -> InsertedInterceptions(s)

UpdatedRow(c, row, s) ==
    CASE c = 1 -> UpdatedPassing(row, s)
      [] c = 2 -> UpdatedRushing(row, s)
      [] c = 3 -> UpdatedReceiving(row, s)
      [] c = 4 -> UpdatedFumbles(row, s)
      [] c = 5 -> UpdatedDefensive(row, s)
      [] c = 6 -> UpdatedInterceptions(row, s)

(* SELECT ... WHERE player_id = pid; fetchone(): the rows found, at most   *)
(* the first one                                                           *)
RowsOf(table, pid) == SelectSeq(table, LAMBDA r : r.player_id = pid)

SelectRow(table, pid) == IF RowsOf(table, pid) = <<>> THEN <<>> ELSE <<Head(RowsOf(table, pid))>>

(* mutant: the UPDATE has no WHERE clause *)
UpdateRowsEverywhere(table, pid, new) == [i \in 1..Len(table) |-> new]

(* UPDATE ... WHERE player_id = pid sets every row of the player *)
UpdateRows(table, pid, new) == [i \in 1..Len(table) |-> IF table[i].player_id = pid THEN new ELSE table[i]]

(* mutant: the SELECT result is ignored, every record is inserted *)
WriteRecordAlwaysInsert(c, table, found, s) == Append(table, InsertedRow(c, s))

(* the write raises before its statement is executed: the                  *)
(* _merge_completions of the UPDATE of passing_stats                       *)
WriteRaises(c, found, s) ==
    c = 1 /\ found # <<>> /\ IsRaised(_merge_completions(found[1].completions_attempts, s.completions_attempts))

(* the write of one record after its SELECT returned found *)
WriteRecord(c, table, found, s) ==
    IF found # <<>> THEN UpdateRows(table, s.player_id, UpdatedRow(c, found[1], s))
    ELSE Append(table, InsertedRow(c, s))

----------------------------------------------------------------------------
(* Bounds and sample inputs *)

NumGames == 3

MaxRuns == 2

MaxFaults == 1

MaxTokenLen == 3

PreseasonMaxWeek == 4

RegularMaxWeek == 18

PlayoffsMaxWeek == 4

Games == 1..NumGames

Weeks == 1..RegularMaxWeek

(* parameters a run is started with: accepted ones and rejected ones *)
StartInputs == {<<1, 1>>, <<2, 2>>, <<3, 3>>, <<1, 5>>, <<2, 19>>, <<0, 1>>, <<4, 2>>, <<2, 0>>}

Chars(n) == StrV(IntToStr(n))

P1 == Chars(1)

P2 == Chars(2)

Athlete(id, stats) == [id |-> id, displayName |-> id, headshot |-> None, stats |-> stats]

Group(name, athletes) == [name |-> name, athletes |-> athletes]

TeamEntry(n, statistics) == [team_id |-> Chars(n), team_name |-> StrV(<<"T">> \o IntToStr(n)), statistics |-> statistics]

CompAtt(c, a) == StrV(IntToStr(c) \o <<"/">> \o IntToStr(a))

SackToken == StrV(<<"2", "-", "9">>)

(* three box scores; between them every category holds at least two       *)
(* records of one player, a record without player id, short stats arrays   *)
(* and tokens that are no numbers                                          *)
SamplePayloads ==
    << << TeamEntry(1, << Group("passing", <<Athlete(P1, <<CompAtt(10, 15), Chars(250), StrV(<<"7", ".", "5">>), Chars(2), Chars(1), SackToken>>)>>),
                         Group("rushing", <<Athlete(P1, <<Chars(5), Chars(20), Chars(4), Chars(1), Chars(12)>>),
                                            Athlete(P2, <<Chars(3), StrV(<<"-", "2">>), None, Chars(0), Chars(4)>>)>>) >>),
          TeamEntry(2, << Group("receiving", <<Athlete(P2, <<Chars(4), Chars(31), Chars(7), Chars(0)>>)>>) >>) >>,
       << TeamEntry(3, << Group("passing", <<Athlete(P1, <<CompAtt(5, 8), StrV(<<"1", ",", "0", "2", "0">>), None, IntV(1)>>)>>),
                         Group("rushing", <<Athlete(P1, <<Chars(2), IntV(-3), None, None, Chars(7)>>)>>),
                         Group("receiving", <<Athlete(P2, <<Chars(1), Chars(9), None, Chars(1)>>)>>),
                         Group("fumbles", <<Athlete(P1, <<Chars(1), Chars(1), Chars(0)>>)>>),
                         Group("defensive", <<Athlete(P2, <<Chars(6), Chars(4), StrV(<<"1", ".", "5">>), Chars(1), Chars(0), Chars(2), Chars(0)>>)>>),
                         Group("interceptions", <<Athlete(P2, <<Chars(1), Chars(25), Chars(1)>>)>>) >>) >>,
       << TeamEntry(1, << Group("rushing", <<Athlete(None, <<Chars(9), Chars(9)>>),
                                            Athlete(P1, <<Chars(1), Chars(6), None, Chars(0)>>)>>),
                         Group("fumbles", <<Athlete(P1, <<Chars(2), StrV(<<"x">>)>>), Athlete(P1, <<Chars(1), Chars(1), Chars(1)>>)>>) >>),
          TeamEntry(2, << Group("defensive", <<Athlete(P2, <<Chars(3), Chars(3), Chars(1)>>)>>),
                         Group("interceptions", <<Athlete(P2, <<Chars(2), StrV(<<"-", "4">>), Chars(0)>>)>>),
                         Group("kicking", <<Athlete(P2, <<Chars(1)>>)>>) >>) >> >>

(* get_game_json(game_id) of a game whose fetch succeeds *)
GamePayload(g) == SamplePayloads[((g - 1) % 3) + 1]

(* get_game_ids: the first split games are played in week 1, the others   *)
(* in week 2, later weeks have no game                                     *)
ScheduleOf(split) == [w \in Weeks |-> IF w = 1 THEN [i \in 1..split |-> i]
                                     ELSE IF w = 2 THEN [i \in 1..(NumGames - split) |-> split + i]
                                     ELSE <<>>]

EmptyTables == [c \in 1..6 |-> <<>>]

(* mutant: the counts start at 1 *)
NoResultsOnes == [c \in 1..6 |-> 1]

NoResults == [c \in 1..6 |-> 0]

NoRun == [st |-> 0, ew |-> 0, ok |-> FALSE]

----------------------------------------------------------------------------
(* State *)

VARIABLES
    committed,    \* the six tables as committed in the database
    working,      \* the six tables as seen through database_connection (uncommitted changes included)
    pc,           \* position of compile_season_stats
    season_type,  \* parameters of the current run
    end_week,
    week,         \* loop variable of compile_season_stats
    game_ids,     \* games of the week not yet processed
    stats,        \* get_player_stats result of the current game
    cat,          \* category whose insert_*_stats runs (table being deleted, during the wipe)
    idx,          \* position in the batch
    processed,    \* processed counter of insert_*_stats
    results,      \* results dict of insert_all_player_stats
    warnings,     \* the warnings printed by the current run, <<game_id, week>>
    schedule,     \* source feed: games per week
    fetchFails,   \* source feed: games whose payload fetch raises
    runs,         \* number of runs started
    faults,       \* number of storage and discovery failures so far
    events,       \* history of the current run
    startTables,  \* committed tables when the current run was started
    prevRun,      \* parameters of the run before the current one if it completed without failure, else NoRun
    ingested,     \* per category, the records merged and committed since the last wipe
    wcat,         \* concurrent writers: the category both insert into
    wrec,         \* concurrent writers: the record each one merges
    wfound,       \* concurrent writers: the row each one's SELECT returned
    wpc,          \* concurrent writers: position of each one
    args,         \* arguments of the call of a function examined on its own
    ret           \* what the call returned or raised: compile_season_stats, or the function examined

vars == <<committed, working, pc, season_type, end_week, week, game_ids, stats, cat, idx, processed,
          results, warnings, schedule, fetchFails, runs, faults, events, startTables, prevRun, ingested,
          wcat, wrec, wfound, wpc, args, ret>>

source == <<schedule, fetchFails>>

conc == <<wcat, wrec, wfound, wpc>>

call == <<args, ret>>

(* a call that has not returned; one that returned a list *)
Pending == [k |-> "pending"]

Returned(v) == [k |-> "ok", v |-> v]

Resting == {"idle", "rejected", "completed", "aborted"}

Ev(op, a, b) == [op |-> op, a |-> a, b |-> b]

Init ==
    /\ committed = EmptyTables
    /\ working = EmptyTables
    /\ pc = "idle"
    /\ season_type = 0
    /\ end_week = 0
    /\ week = 0
    /\ game_ids = <<>>
    /\ stats = EmptyTables
    /\ cat = 1
    /\ idx = 0
    /\ processed = 0
    /\ results = NoResults
    /\ warnings = <<>>
    /\ \E split \in 0..NumGames : schedule = ScheduleOf(split)
    /\ fetchFails \in SUBSET Games
    /\ runs = 0
    /\ faults = 0
    /\ events = <<>>
    /\ startTables = EmptyTables
    /\ prevRun = NoRun
    /\ ingested = EmptyTables
    /\ wcat = 0
    /\ wrec = <<>>
    /\ wfound = <<>>
    /\ wpc = <<>>
    /\ args = <<>>
    /\ ret = Pending

----------------------------------------------------------------------------
(* compile_season_stats *)

(* mutant: the upper bounds of end_week are not checked *)
ValidationErrorNoUpper(st, ew) == ew < 1 \/ st \notin {1, 2, 3}

(* mutant: the regular season bound is off by one *)
ValidationErrorOffByOne(st, ew) ==
    \/ ew < 1
    \/ st \notin {1, 2, 3}
    \/ st = 1 /\ ew > PreseasonMaxWeek
    \/ st = 2 /\ ew >= RegularMaxWeek
    \/ st = 3 /\ ew > PlayoffsMaxWeek

ValidationError(st, ew) ==
    \/ ew < 1
    \/ st \notin {1, 2, 3}
    \/ st = 1 /\ ew > PreseasonMaxWeek
    \/ st = 2 /\ ew > RegularMaxWeek
    \/ st = 3 /\ ew > PlayoffsMaxWeek

(* mutant: the commit does not make the changes durable *)
CommitNothing(c, w) == c

(* database_connection.commit() and .rollback(): the tables that result,   *)
(* committed and as seen through the connection                            *)
Commit(c, w) == w

(* mutant: the rollback is missing *)
RollbackMissing(c, w) == w

(* mutant: the rollback discards the committed rows as well *)
RollbackLosesRows(c, w) == [k \in 1..6 |-> <<>>]

(* mutant: the rollback does not bring back the rows already deleted *)
RollbackKeepsDeletes(c, w) == [k \in 1..6 |-> IF w[k] = <<>> THEN <<>> ELSE c[k]]

Rollback(c, w) == c

(* mutant: the DELETE statements are missing *)
WipeTablesNone == {}

(* mutant: the last table is missing from the list *)
WipeTablesShort == 1..5

(* tables wipe_all_stats_tables deletes from *)
WipeTables == 1..6

(* first category at or after k with a non-empty batch, 7 if none: an      *)
(* insert_*_stats call on an empty batch returns 0 without a statement     *)
NextCat(st, k) == IF \E c \in k..6 : st[c] # <<>> THEN CHOOSE c \in k..6 : st[c] # <<>> /\ \A d \in k..(c - 1) : st[d] = <<>> ELSE 7

FaultOps == {"wipe_fail", "discover_fail", "rollback"}

(* a storage or discovery failure happened in the current run *)
RunFaulted == \E i \in 1..Len(events) : events[i].op \in FaultOps

(* mutant: the wipe is not called *)
FirstStepNoWipe == "discover"

(* mutant: the call of the wipe never returns *)
FirstStepHangs == "hung"

(* what compile_season_stats does first once the parameters are accepted:  *)
(* the call of wipe_all_stats_tables                                       *)
FirstStep == "wipe"

(* mutant: the failure ends the loop over the week's games *)
GamesAfterFailureBreak(gids) == <<>>

(* mutant: the failure also skips the game after the failed one *)
GamesAfterFailureSkipsNext(gids) == IF Len(gids) >= 2 THEN Tail(Tail(gids)) ELSE <<>>

(* the games left to the for loop after the except clause handled a        *)
(* failure of the first one: the loop goes on                              *)
GamesAfterFailure(gids) == Tail(gids)

(* mutant: the failure of the wipe is swallowed and the run goes on *)
AfterWipeFailureGoesOn == "discover"

(* where compile_season_stats is after wipe_all_stats_tables raised: the   *)
(* call is not inside a try, the exception leaves the function             *)
AfterWipeFailure == "aborted"

(* the call: validation, then the wipe is entered *)
Start(st, ew) ==
    /\ pc \in Resting
    /\ runs < MaxRuns
    /\ runs' = runs + 1
    /\ season_type' = st
    /\ end_week' = ew
    /\ events' = <<>>
    /\ warnings' = <<>>
    /\ startTables' = committed
    /\ prevRun' = IF pc = "completed" /\ ~RunFaulted THEN [st |-> season_type, ew |-> end_week, ok |-> TRUE] ELSE NoRun
    /\ week' = 1
    /\ cat' = 1
    /\ pc' = IF ValidationError(st, ew) THEN "rejected" ELSE FirstStep
    /\ ret' = IF ValidationError(st, ew) THEN Raised("ValueError") ELSE Pending
    /\ UNCHANGED <<committed, working, game_ids, stats, idx, processed, results, source, conc, args, faults, ingested>>


(* wipe_all_stats_tables: one DELETE per table, then the commit *)
WipeDelete ==
    /\ pc = "wipe"
    /\ cat <= 6
    /\ working' = [working EXCEPT ![cat] = IF cat \in WipeTables THEN <<>> ELSE @]
    /\ cat' = cat + 1
    /\ UNCHANGED <<committed, pc, season_type, end_week, week, game_ids, stats, idx, processed, results,
                   warnings, source, conc, call, runs, faults, events, startTables, prevRun, ingested>>

WipeCommit ==
    /\ pc = "wipe"
    /\ cat = 7
    /\ committed' = Commit(committed, working)
    /\ events' = Append(events, Ev("wipe_commit", Cardinality({c \in 1..6 : committed'[c] # <<>>}), 0))
    /\ ingested' = EmptyTables
    /\ pc' = "discover"
    /\ cat' = 1
    /\ UNCHANGED <<working, season_type, end_week, week, game_ids, stats, idx, processed, results,
                   warnings, source, conc, call, runs, faults, startTables, prevRun>>

(* a DELETE or the commit raises: rollback, and the error leaves           *)
(* compile_season_stats; the history notes the table whose DELETE raised   *)
(* (7: the commit)                                                         *)
WipeFail ==
    /\ pc = "wipe"
    /\ faults < MaxFaults
    /\ faults' = faults + 1
    /\ working' = Rollback(committed, working)
    /\ events' = Append(events, Ev("wipe_fail", cat, 0))
    /\ pc' = AfterWipeFailure
    /\ ret' = Raised("Exception")
    /\ cat' = 1
    /\ UNCHANGED <<committed, season_type, end_week, week, game_ids, stats, idx, processed, results,
                   warnings, source, conc, args, runs, startTables, prevRun, ingested>>

(* get_game_ids(season, week, season_type) *)
Discover ==
    /\ pc = "discover"
    /\ game_ids' = schedule[week]
    /\ events' = Append(events, Ev("discover", week, 0))
    /\ pc' = "game"
    /\ UNCHANGED <<committed, working, season_type, end_week, week, stats, cat, idx, processed, results,
                   warnings, source, conc, call, runs, faults, startTables, prevRun, ingested>>

(* get_game_ids raises (raise_for_status): nothing catches it *)
DiscoverFail ==
    /\ pc = "discover"
    /\ faults < MaxFaults
    /\ faults' = faults + 1
    /\ events' = Append(events, Ev("discover_fail", week, 0))
    /\ pc' = "aborted"
    /\ ret' = Raised("HTTPError")
    /\ UNCHANGED <<committed, working, season_type, end_week, week, game_ids, stats, cat, idx, processed,
                   results, warnings, source, conc, args, runs, startTables, prevRun, ingested>>

(* the for loop over game_ids is exhausted: next week, or the run ends;    *)
(* the function has no return statement, the call returns None             *)
EndWeek ==
    /\ pc = "game"
    /\ game_ids = <<>>
    /\ IF week < end_week
       THEN week' = week + 1 /\ pc' = "discover" /\ ret' = ret
       ELSE week' = week /\ pc' = "completed" /\ ret' = None
    /\ UNCHANGED <<committed, working, season_type, end_week, game_ids, stats, cat, idx, processed, results,
                   warnings, source, conc, args, runs, faults, events, startTables, prevRun, ingested>>

(* get_player_stats(int(game_id)) raises: the fetch fails or the extractor *)
(* raises; the except clause prints the warning                            *)
FetchRaises(g) == g \in fetchFails \/ ExtractRaises(GamePayload(g))

(* get_player_stats of the next game, and the entry into                   *)
(* insert_all_player_stats                                                 *)
Fetch ==
    /\ pc = "game"
    /\ game_ids # <<>>
    /\ LET g == Head(game_ids)
           st == get_player_stats(GamePayload(g))
       IN IF FetchRaises(g)
          THEN /\ warnings' = Append(warnings, <<g, week>>)
               /\ events' = Append(events, Ev("fetch_fail", g, week))
               /\ game_ids' = GamesAfterFailure(game_ids)
               /\ UNCHANGED <<pc, stats, cat, idx, processed, results>>
          ELSE /\ events' = Append(events, Ev("fetch", g, week))
               /\ results' = NoResults
               /\ IF NextCat(st, 1) = 7
                  THEN game_ids' = Tail(game_ids) /\ UNCHANGED <<pc, stats, cat, idx, processed>>
                  ELSE /\ pc' = "insert"
                       /\ stats' = st
                       /\ cat' = NextCat(st, 1)
                       /\ idx' = 1
                       /\ processed' = 0
                       /\ UNCHANGED game_ids
               /\ UNCHANGED warnings
    /\ UNCHANGED <<committed, working, season_type, end_week, week, source, conc, call, runs, faults, startTables,
                   prevRun, ingested>>

(* mutant: no record is skipped *)
HasPlayerAlways(s) == TRUE

(* pid = _field(s, "player_id"); if pid is None: continue *)
HasPlayer(s) == s.player_id # None

(* an exception leaves the try block of insert_*_stats: it rolls back and  *)
(* re-raises, insert_all_player_stats rolls back and re-raises, the except *)
(* clause of compile_season_stats prints the warning and the loop goes on  *)
(* with the next game                                                      *)
RaiseInBatch ==
    /\ faults' = faults + 1
    /\ working' = Rollback(committed, working)
    /\ events' = Append(events, Ev("rollback", Head(game_ids), cat))
    /\ warnings' = Append(warnings, <<Head(game_ids), week>>)
    /\ pc' = "game"
    /\ game_ids' = GamesAfterFailure(game_ids)
    /\ stats' = EmptyTables
    /\ cat' = 1
    /\ idx' = 0
    /\ processed' = 0
    /\ UNCHANGED <<committed, season_type, end_week, week, results, source, conc, call, runs, startTables, prevRun, ingested>>

(* one iteration of the for loop of insert_*_stats: a record without       *)
(* player id is skipped, otherwise SELECT, then UPDATE or INSERT, or the   *)
(* ValueError of _merge_completions before the UPDATE, which leaves the    *)
(* try block                                                               *)
MergeRecord ==
    /\ pc = "insert"
    /\ idx <= Len(stats[cat])
    /\ LET s == stats[cat][idx]
       IN IF HasPlayer(s) /\ WriteRaises(cat, SelectRow(working[cat], s.player_id), s)
          THEN RaiseInBatch
          ELSE /\ IF ~HasPlayer(s)
                  THEN UNCHANGED <<working, processed, events>>
                  ELSE /\ working' = [working EXCEPT ![cat] = WriteRecord(cat, @, SelectRow(@, s.player_id), s)]
                       /\ processed' = processed + 1
                       /\ events' = Append(events, Ev("write", Head(game_ids), cat))
               /\ idx' = idx + 1
               /\ UNCHANGED <<committed, pc, season_type, end_week, week, game_ids, stats, cat, results,
                              warnings, source, conc, call, runs, faults, startTables, prevRun, ingested>>

(* the batch is exhausted: commit, return processed; the next non-empty    *)
(* batch of the game begins, or insert_all_player_stats returns            *)
CommitBatch ==
    /\ pc = "insert"
    /\ idx > Len(stats[cat])
    /\ committed' = Commit(committed, working)
    /\ results' = [results EXCEPT ![cat] = processed]
    /\ ingested' = [ingested EXCEPT ![cat] = @ \o SelectSeq(stats[cat], HasPlayer)]
    /\ events' = Append(events, Ev("commit", Head(game_ids), cat))
    /\ IF NextCat(stats, cat + 1) = 7
       THEN /\ pc' = "game"
            /\ game_ids' = Tail(game_ids)
            /\ stats' = EmptyTables
            /\ cat' = 1
            /\ idx' = 0
            /\ processed' = 0
       ELSE /\ cat' = NextCat(stats, cat + 1)
            /\ idx' = 1
            /\ processed' = 0
            /\ UNCHANGED <<pc, game_ids, stats>>
    /\ UNCHANGED <<working, season_type, end_week, week, warnings, source, conc, call, runs, faults, startTables, prevRun>>

(* a statement of the batch or its commit raises, at most MaxFaults times  *)
(* together with the other failures of the storage and the source          *)
DbFail ==
    /\ pc = "insert"
    /\ faults < MaxFaults
    /\ IF idx > Len(stats[cat]) THEN TRUE ELSE stats[cat][idx].player_id # None
    /\ RaiseInBatch

Next ==
    \/ \E p \in StartInputs : Start(p[1], p[2])
    \/ WipeDelete
    \/ WipeCommit
    \/ WipeFail
    \/ Discover
    \/ DiscoverFail
    \/ EndWeek
    \/ Fetch
    \/ MergeRecord
    \/ CommitBatch
    \/ DbFail

Spec == Init /\ [][Next]_vars

(* Fairness.  compile_season_stats is one thread without a wait: once it   *)
(* was called the interpreter runs its next statement, and every call to   *)
(* the database or to the source returns or raises.  Each step of the run  *)
(* is weakly fair.  For Fetch and MergeRecord, WF_vars(A) is written as    *)
(* its definition <>[]ENABLED <<A>>_vars => []<><<A>>_vars with the guard  *)
(* of the action in the place of ENABLED: the two actions are enabled      *)
(* exactly when their guard holds, and each of their steps changes vars.   *)
ControlStep == WipeDelete \/ WipeCommit \/ Discover \/ EndWeek \/ CommitBatch

FairFetch == <>[](pc = "game" /\ game_ids # <<>>) => []<><<Fetch>>_vars

FairMergeRecord == <>[](pc = "insert" /\ idx <= Len(stats[cat])) => []<><<MergeRecord>>_vars

SpecLive == Init /\ [][Next]_vars /\ WF_vars(ControlStep) /\ FairFetch /\ FairMergeRecord

----------------------------------------------------------------------------
(* Validation alone: the call on every pair of parameters *)

SeasonTypeInputs == 0..4

EndWeekInputs == (0 - 1)..(RegularMaxWeek + 2)

InitValidate ==
    /\ committed = EmptyTables
    /\ working = EmptyTables
    /\ pc = "idle"
    /\ season_type \in SeasonTypeInputs
    /\ end_week \in EndWeekInputs
    /\ week = 0
    /\ game_ids = <<>>
    /\ stats = EmptyTables
    /\ cat = 1
    /\ idx = 0
    /\ processed = 0
    /\ results = NoResults
    /\ warnings = <<>>
    /\ schedule = ScheduleOf(NumGames)
    /\ fetchFails = {}
    /\ runs = 0
    /\ faults = 0
    /\ events = <<>>
    /\ startTables = EmptyTables
    /\ prevRun = NoRun
    /\ ingested = EmptyTables
    /\ wcat = 0
    /\ wrec = <<>>
    /\ wfound = <<>>
    /\ wpc = <<>>
    /\ args = <<>>
    /\ ret = Pending

Validate == runs = 0 /\ Start(season_type, end_week)

SpecValidate == InitValidate /\ [][Validate]_vars

----------------------------------------------------------------------------
(* Reference results the claims compare the run with *)

(* insert_*_stats on a batch, start to commit, as one step *)
RECURSIVE MergeBatch(_, _, _)
MergeBatch(c, table, batch) ==
    IF batch = <<>> THEN table
    ELSE IF Head(batch).player_id = None THEN MergeBatch(c, table, Tail(batch))
    ELSE MergeBatch(c, WriteRecord(c, table, SelectRow(table, Head(batch).player_id), Head(batch)), Tail(batch))

MergeGame(tables, g) == [c \in 1..6 |-> MergeBatch(c, tables[c], get_player_stats(GamePayload(g))[c])]

RECURSIVE MergeGames(_, _)
MergeGames(tables, gs) == IF gs = <<>> THEN tables ELSE MergeGames(MergeGame(tables, Head(gs)), Tail(gs))

(* the games of weeks 1..ew in the order the source lists them *)
RunGames(ew) == Flatten([w \in 1..ew |-> schedule[w]])

WeekOf(g) == CHOOSE w \in Weeks : \E i \in 1..Len(schedule[w]) : schedule[w][i] = g

Fetched(g) == g \notin fetchFails

NotFetched(g) == g \in fetchFails

FailedGames(ew) == SelectSeq(RunGames(ew), NotFetched)

CountingFields(c) ==
    CASE c = 1 -> {"passing_yards", "passing_touchdowns", "interceptions", "sacks"}
      [] c = 2 -> {"rushing_attempts", "rushing_yards", "rushing_touchdowns"}
      [] c = 3 -> {"receptions", "receiving_yards", "receiving_touchdowns", "targets"}
      [] c = 4 -> {"fumbles", "fumbles_lost", "fumbles_recovered"}
      [] c = 5 -> {"total_tackles", "solo_tackles", "sacks", "tackles_for_loss", "passes_defended", "qb_hits", "defensive_touchdowns"}
      [] c = 6 -> {"interceptions", "interception_yards", "interception_touchdowns"}

LongestField(c) == IF c = 2 THEN "longest_run" ELSE "longest_reception"

NullAsZero(v) == IF v = None THEN 0 ELSE v.v

RECURSIVE SumOf(_, _)
SumOf(recs, f) == IF recs = <<>> THEN 0 ELSE NullAsZero(Head(recs)[f]) + SumOf(Tail(recs), f)

(* the maximum of field f over the records, nulls excluded; None if all    *)
(* are null                                                                *)
MaxOf(recs, f) ==
    LET vals == {recs[i][f].v : i \in {j \in 1..Len(recs) : recs[j][f] # None}}
    IN IF vals = {} THEN None ELSE IntV(CHOOSE m \in vals : \A n \in vals : n <= m)

PlayersOf(recs) == {recs[i].player_id : i \in 1..Len(recs)}

ClaimRejects(st, ew) ==
    \/ st \notin {1, 2, 3}
    \/ ew < 1
    \/ ew > (IF st = 2 THEN 18 ELSE 4)

IsOp(i, ops) == events[i].op \in ops

(* the INSERT and UPDATE statements executed for category c of game g *)
WritesOf(g, c) == Cardinality({i \in 1..Len(events) : events[i] = Ev("write", g, c)})

(* the records of the batch that carry a player id *)
WithPlayer(batch) == Cardinality({i \in 1..Len(batch) : batch[i].player_id # None})

(* the longest value of the player's row in a table, None if null or if    *)
(* the player has no row                                                   *)
LongestOf(table, c, pid) == IF RowsOf(table, pid) = <<>> THEN None ELSE RowsOf(table, pid)[1][LongestField(c)]

NumericFields(c) == CountingFields(c) \cup (IF c \in {2, 3} THEN {LongestField(c)} ELSE {})

IsAttempt(e) == e.op \in {"fetch", "fetch_fail"}

IsDiscover(e) == e.op = "discover"

(* the games attempted and the weeks discovered by the current run, in order *)
Attempts == SelectSeq(events, IsAttempt)

Discovers == SelectSeq(events, IsDiscover)

RECURSIVE SumAt(_, _)
(* sum of the k-th components of a sequence of pairs *)
SumAt(ps, k) == IF ps = <<>> THEN 0 ELSE Head(ps)[k] + SumAt(Tail(ps), k)

(* the index map as the claim states it: pairs of field and position *)
ClaimedIndexMap(c) ==
    CASE c = 1 -> {<<"passing_yards", 1>>, <<"passing_touchdowns", 3>>, <<"interceptions", 4>>, <<"sacks", 5>>}
      [] c = 2 -> {<<"rushing_attempts", 0>>, <<"rushing_yards", 1>>, <<"rushing_touchdowns", 3>>, <<"longest_run", 4>>}
      [] c = 3 -> {<<"receptions", 0>>, <<"receiving_yards", 1>>, <<"receiving_touchdowns", 3>>,
                   <<"longest_reception", 4>>, <<"targets", 5>>}
      [] c = 4 -> {<<"fumbles", 0>>, <<"fumbles_lost", 1>>, <<"fumbles_recovered", 2>>}
      [] c = 5 -> {<<"total_tackles", 0>>, <<"solo_tackles", 1>>, <<"sacks", 2>>, <<"tackles_for_loss", 3>>,
                   <<"passes_defended", 4>>, <<"qb_hits", 5>>, <<"defensive_touchdowns", 6>>}
      [] c = 6 -> {<<"interceptions", 0>>, <<"interception_yards", 1>>, <<"interception_touchdowns", 2>>}

(* the field a record gets from position i of a stats array *)
TokenAt(st, i) == IF i + 1 <= Len(st) THEN _parse_int(st[i + 1]) ELSE None

(* the group of the box score of a call of the extractor on its own *)
GroupOf(payload) == payload[1].statistics[1]

BatchOps == {"write", "commit", "rollback"}

(* the players of batch d of game g *)
BatchPlayers(g, d) == PlayersOf(SelectSeq(get_player_stats(GamePayload(g))[d], HasPlayer))

(* the records that carry a player id *)
WithId(recs) == SelectSeq(recs, LAMBDA s : s.player_id # None)

IdentityFields == {"team_id", "team_name", "player_name", "player_headshot_url"}

LastOf(recs) == recs[Len(recs)]

----------------------------------------------------------------------------
(* Two concurrent callers of one insert_*_stats function, each with a      *)
(* batch of one record of the same player.  Both use the module-level      *)
(* database_connection, so each one's statements act on the same           *)
(* uncommitted view and each one's commit commits it; the code takes no    *)
(* lock and its SELECT is a plain read.                                    *)

Writers == {1, 2}

(* the records of category c and player pid the sample box scores hold *)
SampleRecords(c, pid) ==
    LET all == Flatten([g \in Games |-> get_player_stats(GamePayload(g))[c]])
    IN {all[i] : i \in {j \in 1..Len(all) : all[j].player_id = pid}}

InitConc ==
    /\ wcat \in 1..6
    /\ \E pid \in {P1, P2} : wrec \in [Writers -> SampleRecords(wcat, pid)]
    /\ committed \in {EmptyTables, MergeGame(EmptyTables, 2)}
    /\ working = committed
    /\ startTables = committed
    /\ wfound = [w \in Writers |-> <<>>]
    /\ wpc = [w \in Writers |-> "select"]
    /\ pc = "idle"
    /\ season_type = 0
    /\ end_week = 0
    /\ week = 0
    /\ game_ids = <<>>
    /\ stats = EmptyTables
    /\ cat = 1
    /\ idx = 0
    /\ processed = 0
    /\ results = NoResults
    /\ warnings = <<>>
    /\ schedule = ScheduleOf(NumGames)
    /\ fetchFails = {}
    /\ runs = 0
    /\ faults = 0
    /\ events = <<>>
    /\ prevRun = NoRun
    /\ ingested = EmptyTables
    /\ args = <<>>
    /\ ret = Pending

run == <<pc, season_type, end_week, week, game_ids, stats, cat, idx, processed, results, warnings,
         runs, faults, events, startTables, prevRun, ingested>>

(* cur.execute(SELECT ...); row = cur.fetchone() *)
ConcSelect(w) ==
    /\ wpc[w] = "select"
    /\ wfound' = [wfound EXCEPT ![w] = SelectRow(working[wcat], wrec[w].player_id)]
    /\ wpc' = [wpc EXCEPT ![w] = "write"]
    /\ UNCHANGED <<committed, working, wcat, wrec, source, run, call>>

(* cur.execute(UPDATE ...) if row, else cur.execute(INSERT ...); when the  *)
(* _merge_completions before the UPDATE raises, database_connection        *)
(* .rollback() on the connection both writers use, and the raise           *)
ConcWrite(w) ==
    /\ wpc[w] = "write"
    /\ IF WriteRaises(wcat, wfound[w], wrec[w])
       THEN /\ working' = Rollback(committed, working)
            /\ wpc' = [wpc EXCEPT ![w] = "raised"]
       ELSE /\ working' = [working EXCEPT ![wcat] = WriteRecord(wcat, @, wfound[w], wrec[w])]
            /\ wpc' = [wpc EXCEPT ![w] = "commit"]
    /\ UNCHANGED <<committed, wcat, wrec, wfound, source, run, call>>

(* database_connection.commit() *)
ConcCommit(w) ==
    /\ wpc[w] = "commit"
    /\ committed' = Commit(committed, working)
    /\ wpc' = [wpc EXCEPT ![w] = "done"]
    /\ UNCHANGED <<working, wcat, wrec, wfound, source, run, call>>

NextConc == \E w \in Writers : ConcSelect(w) \/ ConcWrite(w) \/ ConcCommit(w)

SpecConc == InitConc /\ [][NextConc]_vars

----------------------------------------------------------------------------
(* Functions examined on their own: the call of one function on arguments  *)
(* drawn from a set, everything else at rest.                              *)

idle == <<committed, working, pc, season_type, end_week, week, game_ids, stats, cat, idx, processed,
          results, warnings, schedule, fetchFails, runs, faults, events, startTables, prevRun, ingested,
          wcat, wrec, wfound, wpc>>

InitIdle ==
    /\ committed = EmptyTables
    /\ working = EmptyTables
    /\ pc = "idle"
    /\ season_type = 0
    /\ end_week = 0
    /\ week = 0
    /\ game_ids = <<>>
    /\ stats = EmptyTables
    /\ cat = 1
    /\ idx = 0
    /\ processed = 0
    /\ results = NoResults
    /\ warnings = <<>>
    /\ schedule = ScheduleOf(NumGames)
    /\ fetchFails = {}
    /\ runs = 0
    /\ faults = 0
    /\ events = <<>>
    /\ startTables = EmptyTables
    /\ prevRun = NoRun
    /\ ingested = EmptyTables
    /\ wcat = 0
    /\ wrec = <<>>
    /\ wfound = <<>>
    /\ wpc = <<>>

(* _merge_completions(existing, incoming).  A completions_attempts value   *)
(* is null, a bare number, or two parts around a slash, either of which    *)
(* may be missing.  A part is written in decimal digits; BigNumber has one *)
(* digit more than int() converts.                                         *)

FracNumbers == {0, 3, 5, 7, 8, 9, 10, 15}

BigNumber == [i \in 1..(IntMaxStrDigits + 1) |-> "1"]

FracParts == {None} \cup {StrV(DecimalDigits(n)) : n \in FracNumbers}

BigInputs ==
    {[kind |-> "bare", l |-> StrV(BigNumber), r |-> None],
     [kind |-> "slash", l |-> StrV(BigNumber), r |-> StrV(<<"7">>)],
     [kind |-> "slash", l |-> StrV(<<"7">>), r |-> StrV(BigNumber)]}

FracInputs ==
    {[kind |-> "null", l |-> None, r |-> None]}
    \cup {[kind |-> "bare", l |-> StrV(DecimalDigits(n)), r |-> None] : n \in FracNumbers}
    \cup {[kind |-> "slash", l |-> l, r |-> r] : l \in FracParts, r \in FracParts}
    \cup BigInputs

PartStr(x) == IF x = None THEN <<>> ELSE x.s

(* the value as it is stored and passed *)
FracValue(f) ==
    CASE f.kind = "null" -> None
      [] f.kind = "bare" -> StrV(PartStr(f.l))
      [] f.kind = "slash" -> StrV(PartStr(f.l) \o <<"/">> \o PartStr(f.r))

InitMerge ==
    /\ InitIdle
    /\ \E e \in FracInputs, i \in FracInputs : args = <<FracValue(e), FracValue(i)>>
    /\ ret = Pending

CallMerge ==
    /\ ret = Pending
    /\ ret' = _merge_completions(args[1], args[2])
    /\ UNCHANGED <<idle, args>>

SpecMerge == InitMerge /\ [][CallMerge]_vars

(* _parse_int(value) on the tokens a stats array can hold: every string   *)
(* of up to MaxTokenLen characters, longer strings of interest, native     *)
(* numbers, null and a list.                                               *)

TokenChars == {"0", "1", "7", ",", ".", "-", "/", " ", "e", "+", "x"}

TokenStrings == UNION {[1..n -> TokenChars] : n \in 0..MaxTokenLen}

LongTokens ==
    {<<"i", "n", "f">>, <<"I", "n", "f", "i", "n", "i", "t", "y">>, <<"n", "a", "n">>, <<"1", "e", "9", "9", "9">>,
     <<"1", ",", "2", "3", "4">>, <<"1", "2", ".", "0">>, <<"1", "2", "-", "1", "8">>, <<" ", "4", "2", ".", "9", " ">>,
     <<"\t", "7">>, <<" ", "7", "\r", "\n">>, <<"", "7">>, <<"7", "", ",">>, <<"", "7">>, <<"7", "">>,
     <<"1", "_", "0">>, <<"1", "_", "0", ".", "5">>, <<"1", "_">>,
     <<"0", ".", "9", "9", "9", "9", "9", "9", "9", "9", "9", "9", "9", "9", "9", "9", "9", "9", "9">>,
     <<"1", ".", "7", "9", "8", "e", "3", "0", "8">>, <<"1", ".", "7", "9", "7", "e", "-", "1">>}

NativeTokens ==
    {None, IntV(0), IntV(7), IntV(0 - 3), EmptyList,
     FloatV(<<"2", ".", "5">>), FloatV(<<"-", "2", ".", "5">>), FloatV(<<"7", ".", "0">>),
     FloatV(<<"i", "n", "f">>), FloatV(<<"n", "a", "n">>)}

ParseInputs == {StrV(s) : s \in TokenStrings \cup LongTokens} \cup NativeTokens

InitParse ==
    /\ InitIdle
    /\ \E t \in ParseInputs : args = <<t>>
    /\ ret = Pending

CallParse ==
    /\ ret = Pending
    /\ ret' = _parse_int(args[1])
    /\ UNCHANGED <<idle, args>>

SpecParse == InitParse /\ [][CallParse]_vars

(* get_player_stats on a box score of one group with two athlete entries:  *)
(* the first with a stats array that is short or holds one odd token, the  *)
(* second with a full array of numbers.                                    *)

MaxStatsLen == 7

FullStats == [i \in 1..MaxStatsLen |-> Chars(i)]

OddTokens ==
    {None, EmptyList, StrV(<<>>), StrV(<<"x">>), StrV(<<"-", "-">>), StrV(<<"1", "0", "-", "1", "5">>),
     StrV(<<"i", "n", "f">>), FloatV(<<"2", ".", "5">>)}

StatsInputs ==
    {SubSeq(FullStats, 1, n) : n \in 0..MaxStatsLen}
    \cup {[FullStats EXCEPT ![i] = t] : i \in 1..MaxStatsLen, t \in OddTokens}

ExtractPayload(c, st) == << TeamEntry(1, << Group(Categories[c], <<Athlete(P1, st), Athlete(P2, FullStats)>>) >>) >>

InitExtract ==
    /\ InitIdle
    /\ \E c \in 1..6, st \in StatsInputs : args = <<ExtractPayload(c, st)>>
    /\ ret = Pending

CallExtract ==
    /\ ret = Pending
    /\ ret' = IF ExtractRaises(args[1]) THEN Raised(Head(ExtractErrors(args[1]))) ELSE Returned(get_player_stats(args[1]))
    /\ UNCHANGED <<idle, args>>

SpecExtract == InitExtract /\ [][CallExtract]_vars

(* The write of one record, insert_*_stats on a batch of one record, on a  *)
(* table without a row of the player and on a table whose row of the       *)
(* player holds 0 in every numeric column.  The records are those the      *)
(* extractor produces from StatsInputs.                                    *)

ExtractedRecord(c, st) == get_player_stats(ExtractPayload(c, st))[c][1]

ZeroRow(c, s) ==
    [f \in DOMAIN InsertedRow(c, s) |->
        IF f \in NumericFields(c) THEN IntV(0)
        ELSE IF f = "completions_attempts" THEN CompAtt(0, 0)
        ELSE InsertedRow(c, s)[f]]

WriteInto(c, table, s) == WriteRecord(c, table, SelectRow(table, s.player_id), s)

InitWrite ==
    /\ InitIdle
    /\ \E c \in 1..6, st \in StatsInputs :
           /\ ~ExtractRaises(ExtractPayload(c, st))
           /\ args = <<c, ExtractedRecord(c, st)>>
    /\ ret = Pending

CallWrite ==
    /\ ret' = Returned(<<WriteInto(args[1], <<>>, args[2]), WriteInto(args[1], <<ZeroRow(args[1], args[2])>>, args[2])>>)
    /\ UNCHANGED <<idle, args>>

SpecWrite == InitWrite /\ [][CallWrite]_vars

(* insert_passing_stats on the passing records of one player, one call    *)
(* per game, each on a list of the game's one record.  A call is the steps *)
(* of the function: the for loop with its SELECT and its UPDATE or INSERT  *)
(* through database_connection, uncommitted, then the commit and the       *)
(* return of processed (held in results[1], where insert_all_player_stats  *)
(* puts it), or the rollback when a statement raises.  The                 *)
(* completions/attempts token of each record is two counts around a        *)
(* separator: the dash get_player_stats looks for, or the slash            *)
(* _merge_completions splits at.                                           *)

MaxRecords == 3

Separators == {"-", "/"}

CompletionCounts == {5, 10}

AttemptCounts == {8, 15}

CompositeToken(sep, p) == StrV(IntToStr(p[1]) \o <<sep>> \o IntToStr(p[2]))

PassingRecord(sep, p) == ExtractedRecord(1, [FullStats EXCEPT ![1] = CompositeToken(sep, p)])

InitPassing ==
    /\ \E sep \in Separators, n \in 1..MaxRecords :
           \E ps \in [1..n -> CompletionCounts \X AttemptCounts] :
               /\ args = <<sep, ps>>
               /\ game_ids = [i \in 1..n |-> i]
    /\ ret = Pending
    /\ committed = EmptyTables
    /\ working = EmptyTables
    /\ pc = "game"
    /\ season_type = 2
    /\ end_week = 1
    /\ week = 1
    /\ stats = EmptyTables
    /\ cat = 1
    /\ idx = 0
    /\ processed = 0
    /\ results = NoResults
    /\ warnings = <<>>
    /\ schedule = ScheduleOf(NumGames)
    /\ fetchFails = {}
    /\ runs = 1
    /\ faults = 0
    /\ events = <<>>
    /\ startTables = EmptyTables
    /\ prevRun = NoRun
    /\ ingested = EmptyTables
    /\ wcat = 0
    /\ wrec = <<>>
    /\ wfound = <<>>
    /\ wpc = <<>>

(* insert_passing_stats(stats_list) is entered with the record of the next *)
(* game: cur = database_connection.cursor(), processed = 0                 *)
CallPassing ==
    /\ pc = "game"
    /\ game_ids # <<>>
    /\ stats' = [EmptyTables EXCEPT ![1] = <<PassingRecord(args[1], args[2][Head(game_ids)])>>]
    /\ pc' = "insert"
    /\ cat' = 1
    /\ idx' = 1
    /\ processed' = 0
    /\ UNCHANGED <<committed, working, season_type, end_week, week, game_ids, results, warnings, source,
                   runs, faults, events, startTables, prevRun, ingested, conc, call>>

SpecPassing == InitPassing /\ [][CallPassing \/ MergeRecord \/ CommitBatch \/ DbFail]_vars

(* insert_*_stats of one category on a batch whose records carry the ids   *)
(* of two players or none, called by insert_all_player_stats for a game    *)
(* of week 1, on empty tables or on tables an earlier game has filled in   *)
(* every category.                                                         *)

PlayerIds == {None, P1, P2}

BatchPayload(c, ids) == << TeamEntry(1, << Group(Categories[c], [i \in 1..Len(ids) |-> Athlete(ids[i], FullStats)]) >>) >>

InitBatch ==
    /\ \E c \in 1..6, n \in 1..MaxRecords :
           \E ids \in [1..n -> PlayerIds] :
               /\ args = <<c, ids>>
               /\ stats = get_player_stats(BatchPayload(c, ids))
               /\ cat = c
    /\ ret = Pending
    /\ committed \in {EmptyTables, MergeGame(EmptyTables, 2)}
    /\ working = committed
    /\ pc = "insert"
    /\ season_type = 2
    /\ end_week = 1
    /\ week = 1
    /\ game_ids = <<3>>
    /\ idx = 1
    /\ processed = 0
    /\ results = NoResults
    /\ warnings = <<>>
    /\ schedule = ScheduleOf(NumGames)
    /\ fetchFails = {}
    /\ runs = 1
    /\ faults = 0
    /\ events = <<>>
    /\ startTables = EmptyTables
    /\ prevRun = NoRun
    /\ ingested = EmptyTables
    /\ wcat = 0
    /\ wrec = <<>>
    /\ wfound = <<>>
    /\ wpc = <<>>

SpecBatch == InitBatch /\ [][MergeRecord \/ CommitBatch \/ DbFail]_vars

(* execute_query and execute_many: a caller's statement executed through   *)
(* the connection it passes, here the shared one, and left uncommitted;    *)
(* the commit or the rollback is the caller's.  No function of the program *)
(* calls the two, so no run of compile_season_stats takes these steps.     *)
(* The statements are a SELECT of a table, fetched or not, a DELETE of a   *)
(* table, not fetched, and the INSERT of rows.                             *)

MaxStatements == 3

InitExec ==
    /\ InitIdle
    /\ args = <<>>
    /\ ret = Pending

execute_query ==
    /\ Len(events) < MaxStatements
    /\ \E c \in 1..6, op \in {"select", "delete"}, fetch \in BOOLEAN :
           /\ op = "delete" => ~fetch
           /\ args' = <<op, c, fetch>>
           /\ working' = IF op = "delete" THEN [working EXCEPT ![c] = <<>>] ELSE working
           /\ ret' = Returned(IF fetch THEN working[c] ELSE <<>>)
           /\ events' = Append(events, Ev("execute", c, 0))
    /\ UNCHANGED <<committed, pc, season_type, end_week, week, game_ids, stats, cat, idx, processed, results,
                   warnings, source, runs, faults, startTables, prevRun, ingested, conc>>

execute_many ==
    /\ Len(events) < MaxStatements
    /\ \E c \in 1..6 :
           /\ args' = <<"insert", c, MergeGame(EmptyTables, 2)[c]>>
           /\ working' = [working EXCEPT ![c] = @ \o MergeGame(EmptyTables, 2)[c]]
           /\ ret' = None
           /\ events' = Append(events, Ev("execute", c, 1))
    /\ UNCHANGED <<committed, pc, season_type, end_week, week, game_ids, stats, cat, idx, processed, results,
                   warnings, source, runs, faults, startTables, prevRun, ingested, conc>>

(* conn.commit() and conn.rollback() of the caller *)
CallerCommit ==
    /\ working # committed
    /\ committed' = Commit(committed, working)
    /\ UNCHANGED <<working, pc, season_type, end_week, week, game_ids, stats, cat, idx, processed, results,
                   warnings, source, runs, faults, events, startTables, prevRun, ingested, conc, call>>

CallerRollback ==
    /\ working # committed
    /\ working' = Rollback(committed, working)
    /\ UNCHANGED <<committed, pc, season_type, end_week, week, game_ids, stats, cat, idx, processed, results,
                   warnings, source, runs, faults, events, startTables, prevRun, ingested, conc, call>>

SpecExec == InitExec /\ [][execute_query \/ execute_many \/ CallerCommit \/ CallerRollback]_vars

----------------------------------------------------------------------------
(* Claims *)

(* C1: for every category and player, each counting field of the committed *)
(* aggregate row equals the sum of that field over all the records of the  *)
(* player merged and committed since the tables were empty, null counted   *)
(* as 0.                                                                   *)
C1_AdditiveInvariant ==
    \A c \in 1..6 : \A pid \in PlayersOf(ingested[c]) :
        /\ RowsOf(committed[c], pid) # <<>>
        /\ \A f \in CountingFields(c) :
               RowsOf(committed[c], pid)[1][f] = IntV(SumOf(RowsOf(ingested[c], pid), f))

C1_Witness ==
    /\ \A c \in 1..6 : \E pid \in PlayersOf(ingested[c]) : Len(RowsOf(ingested[c], pid)) >= 2
    /\ Len(RowsOf(ingested[2], P1)) >= 3
    /\ \E i \in 1..Len(ingested[2]) : ingested[2][i].rushing_touchdowns = None

(* C2: for every rushing or receiving player, the committed longest field  *)
(* equals the maximum of that field over the records merged, nulls         *)
(* excluded, and is null if every record's value was null.                 *)
C2_MaxInvariant ==
    \A c \in {2, 3} : \A pid \in PlayersOf(ingested[c]) :
        /\ RowsOf(committed[c], pid) # <<>>
        /\ RowsOf(committed[c], pid)[1][LongestField(c)] = MaxOf(RowsOf(ingested[c], pid), LongestField(c))

(* C3: a run that completes without failure right after a run with the    *)
(* same parameters that completed without failure leaves the six tables    *)
(* as the first run left them.                                             *)
C3_RerunSameTables ==
    (pc = "completed" /\ ~RunFaulted /\ prevRun = [st |-> season_type, ew |-> end_week, ok |-> TRUE])
        => committed = startTables

C3_Witness ==
    /\ pc = "completed" /\ ~RunFaulted
    /\ prevRun = [st |-> season_type, ew |-> end_week, ok |-> TRUE]
    /\ \A c \in 1..6 : committed[c] # <<>>
    /\ fetchFails = {}

(* C4: in a run whose parameters are accepted the wipe is committed at     *)
(* most once, it leaves all six tables empty, it is committed whenever the *)
(* run is past the wipe, and nothing is discovered, fetched or written     *)
(* before it.                                                              *)
C4_WipeOnceFirst ==
    LET W == {i \in 1..Len(events) : IsOp(i, {"wipe_commit"})}
    IN /\ Cardinality(W) <= 1
       /\ \A i \in W : events[i].a = 0
       /\ pc \in {"discover", "game", "insert", "completed"} => Cardinality(W) = 1
       /\ \A i \in 1..Len(events) : IsOp(i, {"discover", "discover_fail", "fetch", "fetch_fail", "write", "commit", "rollback"}) => 1 \in W

C4_Witness ==
    /\ runs = 2
    /\ startTables[6] # <<>>
    /\ pc = "insert"
    /\ \E i \in 1..Len(events) : IsOp(i, {"write"})

(* C5: a run without storage or discovery failure is never aborted, and    *)
(* when it completes the tables hold the in-order merge of exactly the     *)
(* games whose fetch succeeded and there is one warning for each game      *)
(* whose fetch failed.                                                     *)
C5_PartialFailure ==
    /\ pc = "aborted" => RunFaulted
    /\ (pc = "completed" /\ ~RunFaulted) =>
          /\ committed = MergeGames(EmptyTables, SelectSeq(RunGames(end_week), Fetched))
          /\ warnings = [i \in 1..Len(FailedGames(end_week)) |-> <<FailedGames(end_week)[i], WeekOf(FailedGames(end_week)[i])>>]

C5_Witness ==
    /\ pc = "completed" /\ ~RunFaulted
    /\ fetchFails = {2}
    /\ RunGames(end_week) = <<1, 2, 3>>
    /\ Len(warnings) = 1 /\ warnings[1][1] = 2
    /\ committed = MergeGames(EmptyTables, <<1, 3>>)
    /\ committed # MergeGames(EmptyTables, <<1, 2, 3>>)

(* C6: once a storage failure hit a category batch, the run is aborted:    *)
(* the error is raised to the caller, no later game is processed.          *)
C6_StorageFailureAborts == (\E i \in 1..Len(events) : IsOp(i, {"rollback"})) => pc = "aborted"

(* C7: a step in which a statement or the commit of a category batch fails *)
(* leaves the committed tables as they were and discards every change of   *)
(* the batch.                                                              *)
C7_BatchAtomic == [][(pc = "insert" /\ faults' = faults + 1) => (committed' = committed /\ working' = committed)]_vars

C7_Witness ==
    /\ \E i \in 2..Len(events) : IsOp(i, {"rollback"}) /\ IsOp(i - 1, {"write"}) /\ \E j \in 1..i : IsOp(j, {"commit"})
    /\ committed # EmptyTables
    /\ working = committed

(* C8: when two concurrent writers of records of one player are both done, *)
(* the table is what merging the two records one after the other gives:    *)
(* no increment is lost.                                                   *)
C8_NoLostUpdate ==
    (\A w \in Writers : wpc[w] = "done") =>
        committed[wcat] \in {MergeBatch(wcat, startTables[wcat], <<wrec[1], wrec[2]>>),
                             MergeBatch(wcat, startTables[wcat], <<wrec[2], wrec[1]>>)}

(* C9: the call rejects its parameters exactly when season_type is not 1,  *)
(* 2 or 3, or end_week is below 1, or end_week is above 4 (preseason,      *)
(* playoffs) or 18 (regular season).                                       *)
C9_ValidationExact == runs > 0 => (pc = "rejected" <=> ClaimRejects(season_type, end_week))

C9_Witness == pc = "rejected" /\ season_type = 2 /\ end_week = 19

(* C10: a run whose parameters are to be rejected ends rejected with no    *)
(* wipe, discovery, fetch or write, and the tables as they were.           *)
C10_RejectNoEffect ==
    (runs > 0 /\ ClaimRejects(season_type, end_week)) =>
        /\ pc = "rejected"
        /\ events = <<>>
        /\ committed = startTables
        /\ working = committed

C10_Witness ==
    /\ pc = "rejected" /\ season_type = 1 /\ end_week = 5
    /\ \A c \in 1..6 : committed[c] # <<>>

(* C11: for every category and player, each identity field (team_id,       *)
(* team_name, player_name, player_headshot_url) of the committed aggregate *)
(* row equals that field of the last record of the player merged and       *)
(* committed.                                                              *)
C11_LastWriteWins ==
    \A c \in 1..6 : \A pid \in PlayersOf(ingested[c]) :
        /\ RowsOf(committed[c], pid) # <<>>
        /\ \A f \in IdentityFields : RowsOf(committed[c], pid)[1][f] = LastOf(RowsOf(ingested[c], pid))[f]

C11_Witness ==
    /\ Len(RowsOf(ingested[4], P1)) = 3
    /\ RowsOf(ingested[4], P1)[1].team_name # LastOf(RowsOf(ingested[4], P1)).team_name
    /\ RowsOf(committed[4], P1)[1].team_name = LastOf(RowsOf(ingested[4], P1)).team_name
    /\ Len(RowsOf(ingested[2], P1)) = 3
    /\ RowsOf(ingested[2], P1)[2].team_id # LastOf(RowsOf(ingested[2], P1)).team_id
    /\ RowsOf(committed[2], P1)[1].team_id = LastOf(RowsOf(ingested[2], P1)).team_id

(* the k-th digit of a number from the right, 0 beyond its first digit *)
DigitAt(a, k) == IF k <= Len(a) THEN DigitVal(a[Len(a) + 1 - k]) ELSE 0

(* the sums of the digits of a and b place by place, one place more than   *)
(* the longer of them has                                                  *)
PairSums(a, b) == [k \in 1..((IF Len(a) >= Len(b) THEN Len(a) ELSE Len(b)) + 1) |-> DigitAt(a, k) + DigitAt(b, k)]

(* the places that make a carry *)
CarryPlaces(s) == {j \in DOMAIN s : s[j] >= 10}

(* the addition carries into place k: a lower place makes a carry that the *)
(* places between, of sum 9, pass on                                       *)
CarryInto(s, g, k) == \E j \in g : j < k /\ \A m \in (j + 1)..(k - 1) : s[m] = 9

SumDigit(s, g, k) == (s[k] + (IF CarryInto(s, g, k) THEN 1 ELSE 0)) % 10

(* the sum of two numbers written in decimal digits, in decimal digits *)
DecimalSum(a, b) ==
    LET s == PairSums(a, b)
        g == CarryPlaces(s)
        n == IF CarryInto(s, g, Len(s)) THEN Len(s) ELSE Len(s) - 1
    IN [p \in 1..n |-> Digits[SumDigit(s, g, n + 1 - p) + 1]]

(* the sum of two parts, an absent one as 0 *)
PartSum(x, y) == DecimalSum(IF x = None THEN <<"0">> ELSE x.s, IF y = None THEN <<"0">> ELSE y.s)

(* the merged value as the rule states it *)
MergedFraction(e, i) ==
    IF e.l = None /\ e.r = None /\ i.l = None /\ i.r = None THEN None
    ELSE IF e.r # None \/ i.r # None
         THEN StrV(PartSum(e.l, i.l) \o <<"/">> \o PartSum(e.r, i.r))
         ELSE StrV(PartSum(e.l, i.l))

(* C12: for every pair of null, bare-number or slash-delimited values,     *)
(* _merge_completions returns null when no part is present on either side; *)
(* otherwise the left result is the sum of the two left parts, absent as   *)
(* 0, and the result is "left/right" with right the sum of the two right   *)
(* parts, absent as 0, if either side has a right part, else "left".       *)
C12_MergeFraction ==
    ret # Pending =>
        \A e \in FracInputs : args[1] = FracValue(e) =>
            \A i \in FracInputs : args[2] = FracValue(i) =>
                ret = MergedFraction(e, i)

(* the same for the pairs whose parts int() converts *)
MergeWithinDigitLimit ==
    ret # Pending =>
        \A e \in FracInputs \ BigInputs : args[1] = FracValue(e) =>
            \A i \in FracInputs \ BigInputs : args[2] = FracValue(i) =>
                ret = MergedFraction(e, i)

(* C13: when a run has processed all its weeks, the call returns the total *)
(* touched-row count per category over the games of the run together with  *)
(* the list of the run's warnings.                                         *)
C13_ReturnsTotals ==
    pc = "completed" => ret = [totals |-> [c \in 1..6 |-> Len(ingested[c])], warnings |-> warnings]

(* C14: a failure of game discovery for a week does not end the run: a     *)
(* warning is recorded for the week and the run goes on.                   *)
C14_DiscoveryRecoverable ==
    \A i \in 1..Len(events) : IsOp(i, {"discover_fail"}) =>
        /\ pc # "aborted"
        /\ \E j \in 1..Len(warnings) : warnings[j][2] = events[i].a

(* C16: _parse_int never raises: it returns an integer or null for every   *)
(* token, the integer itself for a native integer, null for null and null  *)
(* for a string that holds a dash or a slash.                              *)
C16_ToIntTotal ==
    ret # Pending =>
        /\ ret.k \in {"int", "none"}
        /\ args[1].k = "int" => ret = args[1]
        /\ args[1].k = "none" => ret = None
        /\ (args[1].k = "str" /\ (Contains(args[1].s, "-") \/ Contains(args[1].s, "/"))) => ret = None

(* C15: get_player_stats never fails because of a short or empty stats     *)
(* array or a token that is no number: it returns the records of both      *)
(* athlete entries, every numeric field of which is an integer or null.    *)
C15_ExtractorNulls ==
    ret # Pending =>
        /\ ret.k = "ok"
        /\ \A c \in 1..6 : args[1][1].statistics[1].name = Categories[c] =>
               /\ Len(ret.v[c]) = 2
               /\ \A i \in 1..2 : \A f \in NumericFields(c) : ret.v[c][i][f].k \in {"int", "none"}

(* C17: a step that completes wipe_all_stats_tables leaves no row in any   *)
(* of the six tables, committed or seen through the connection, whatever   *)
(* they held before, an empty store included.                              *)
C17_ResetEmpties ==
    [][(pc = "wipe" /\ pc' = "discover") =>
          \A c \in 1..6 : \A pid \in {P1, P2} : RowsOf(committed'[c], pid) = <<>> /\ RowsOf(working'[c], pid) = <<>>]_vars

C17_Witness ==
    /\ pc = "discover" /\ week = 1
    /\ events = <<Ev("wipe_commit", 0, 0)>>
    /\ \A c \in 1..6 : RowsOf(startTables[c], P1) # <<>> \/ RowsOf(startTables[c], P2) # <<>>
    /\ committed = EmptyTables

(* C18: every numeric field of every committed aggregate row is absent or  *)
(* a non-negative integer.                                                 *)
C18_NonNegative ==
    \A c \in 1..6 : \A i \in 1..Len(committed[c]) : \A f \in NumericFields(c) :
        committed[c][i][f] = None \/ (committed[c][i][f].k = "int" /\ committed[c][i][f].v >= 0)

(* C19: when insert_all_player_stats has returned for a game, the count it *)
(* holds for each category is the number of rows the category insert       *)
(* created or updated for the game's batch: one per record with a player   *)
(* id, 0 for an empty batch.                                               *)
C19_TouchedCounts ==
    (pc = "game" /\ events # <<>> /\ IsOp(Len(events), {"commit"})) =>
        \A c \in 1..6 :
            /\ results[c] = WritesOf(LastOf(events).a, c)
            /\ results[c] = WithPlayer(get_player_stats(GamePayload(LastOf(events).a))[c])

C19_Witness ==
    /\ pc = "game"
    /\ events # <<>> /\ LastOf(events) = Ev("commit", 3, 6)
    /\ results = <<0, 1, 0, 2, 1, 1>>
    /\ Len(get_player_stats(GamePayload(3))[2]) = 2
    /\ Len(committed[4]) = 1

(* C20: from one committed state to the next, unless the step is a reset,  *)
(* the stored longest_run and longest_reception of a player never          *)
(* decrease, and a new value is never above both the stored value and the  *)
(* largest value of the batch: a running maximum, not a sum.               *)
C20_LongestMonotone ==
    [][pc # "wipe" =>
          \A c \in {2, 3} : \A pid \in {P1, P2} :
              /\ LongestOf(committed[c], c, pid) # None =>
                     /\ LongestOf(committed'[c], c, pid) # None
                     /\ LongestOf(committed'[c], c, pid).v >= LongestOf(committed[c], c, pid).v
              /\ (LongestOf(committed'[c], c, pid) # LongestOf(committed[c], c, pid) /\ LongestOf(committed'[c], c, pid) # None) =>
                     \/ LongestOf(committed'[c], c, pid).v <= NullAsZero(LongestOf(committed[c], c, pid))
                     \/ LongestOf(committed'[c], c, pid).v <= NullAsZero(MaxOf(RowsOf(stats[c], pid), LongestField(c)))]_vars

C20_Witness ==
    /\ LongestOf(committed[2], 2, P1) = IntV(12)
    /\ Len(RowsOf(ingested[2], P1)) = 3
    /\ RowsOf(ingested[2], P1)[1].longest_run = IntV(12)
    /\ RowsOf(ingested[2], P1)[2].longest_run = IntV(7)
    /\ RowsOf(ingested[2], P1)[3].longest_run = None

(* C21: in every state each of the six tables, committed and as seen       *)
(* through the connection, holds at most one row per player_id, also after *)
(* a batch in which the same player_id occurs more than once.              *)
C21_UniquePlayer ==
    \A c \in 1..6 : \A pid \in PlayersOf(working[c]) \cup PlayersOf(committed[c]) :
        Len(RowsOf(working[c], pid)) <= 1 /\ Len(RowsOf(committed[c], pid)) <= 1

C21_Witness ==
    /\ \E i \in 2..Len(events) : events[i] = Ev("write", 3, 4) /\ events[i - 1] = Ev("write", 3, 4)
    /\ \E i \in 1..Len(events) : events[i] = Ev("commit", 3, 4)
    /\ Len(RowsOf(ingested[4], P1)) >= 3
    /\ Len(RowsOf(committed[4], P1)) = 1
    /\ Len(RowsOf(committed[2], P1)) = 1 /\ Len(RowsOf(ingested[2], P1)) >= 2

(* C22: a step that adds a player's row to a committed table is the commit *)
(* of a batch of that category, and a step that removes a player's row     *)
(* from a committed table is the commit of the wipe: no ingestion,         *)
(* successful or failed, removes a committed row.                          *)
C22_RowPersists ==
    [][\A c \in 1..6 :
          /\ \A pid \in PlayersOf(committed[c]) :
                 RowsOf(committed'[c], pid) = <<>> => (pc = "wipe" /\ cat = 7 /\ pc' = "discover")
          /\ \A pid \in PlayersOf(committed'[c]) :
                 RowsOf(committed[c], pid) = <<>> => (pc = "insert" /\ cat = c /\ idx > Len(stats[c]) /\ faults' = faults)]_vars

C22_Witness ==
    /\ \E i \in 1..Len(events) : \E j \in (i + 1)..Len(events) : \E k \in (j + 1)..Len(events) :
           /\ events[i] = Ev("commit", 1, 2)
           /\ IsOp(j, {"rollback"})
           /\ IsOp(k, {"commit"}) /\ events[k].a # 1
    /\ RowsOf(committed[2], P1) # <<>>
    /\ RowsOf(committed[2], P2) # <<>>
    /\ RowsOf(committed[1], P1) # <<>>

(* C23: the weeks a run discovered are 1, 2, .. in this order; the games   *)
(* it attempted are, in order, a prefix of the games of the discovered     *)
(* weeks in discovery order, and every game of the weeks before the last   *)
(* discovered one was attempted; every write, commit or rollback belongs   *)
(* to the game fetched last and no fetch or discovery follows a write that *)
(* was neither committed nor rolled back; a completed run discovered every *)
(* week 1..end_week and attempted every game.                              *)
C23_StrictOrder ==
    /\ \A i \in 1..Len(Discovers) : Discovers[i].a = i
    /\ Len(Discovers) <= end_week
    /\ Len(Attempts) <= Len(RunGames(Len(Discovers)))
    /\ \A i \in 1..Len(Attempts) :
           Attempts[i].a = RunGames(Len(Discovers))[i] /\ Attempts[i].b = WeekOf(Attempts[i].a)
    /\ Len(Discovers) >= 1 => Len(Attempts) >= Len(RunGames(Len(Discovers) - 1))
    /\ \A i \in 1..Len(events) : IsOp(i, {"write", "commit", "rollback"}) =>
           \E j \in 1..(i - 1) :
               /\ events[j].op = "fetch" /\ events[j].a = events[i].a
               /\ \A k \in (j + 1)..(i - 1) : IsOp(k, {"write", "commit"}) /\ events[k].a = events[i].a
    /\ \A k \in 2..Len(events) :
           IsOp(k, {"fetch", "fetch_fail", "discover", "discover_fail"}) => ~IsOp(k - 1, {"write"})
    /\ pc = "completed" => Len(Discovers) = end_week /\ Len(Attempts) = Len(RunGames(end_week))

C23_Witness ==
    /\ pc = "completed"
    /\ end_week = 2
    /\ Len(schedule[1]) = 2 /\ Len(schedule[2]) = 1
    /\ fetchFails = {1}
    /\ \E i \in 1..Len(events) : IsOp(i, {"rollback"}) /\ events[i].a = 2
    /\ \E i \in 1..Len(events) : events[i] = Ev("commit", 3, 4)
    /\ Len(Attempts) = 3 /\ Len(Discovers) = 2

(* C24: a run that was entered eventually is completed or aborted; a       *)
(* completed run has discovered every week 1..end_week and attempted every *)
(* game of these weeks, an aborted run has raised an error to its caller,  *)
(* and a run that is over stays as it ended until the next call.           *)
C24_Terminates ==
    /\ (pc \notin Resting) ~> (pc \in {"completed", "aborted"})
    /\ [](pc = "completed" => (ret = None /\ Len(Discovers) = end_week /\ Len(Attempts) = Len(RunGames(end_week))))
    /\ [](pc = "aborted" => IsRaised(ret))
    /\ [][(pc \in {"completed", "aborted"} /\ pc' # pc) => runs' = runs + 1]_vars

C24_Witness ==
    /\ pc = "completed"
    /\ end_week = 2
    /\ fetchFails = Games
    /\ Len(warnings) = NumGames
    /\ Len(schedule[1]) = 1

(* C25: the write of a record into a table without a row of its player     *)
(* leaves the same counting and longest fields as its write into a table   *)
(* where the player's row holds 0 in all of them.                          *)
C25_AbsentAsZeroRow ==
    ret # Pending =>
        \A f \in NumericFields(args[1]) : ret.v[1][1][f] = ret.v[2][1][f]

(* C26: once all the passing records of a player whose tokens are          *)
(* completions and attempts joined by a dash are ingested, the stored      *)
(* completions_attempts is the summed completions and the summed attempts  *)
(* joined by the separator.                                                *)
C26_CompositeSummed ==
    (args[1] = "-" /\ pc = "game" /\ game_ids = <<>> /\ faults = 0) =>
        /\ Len(committed[1]) = 1
        /\ \E sep \in Separators :
               committed[1][1].completions_attempts = CompositeToken(sep, <<SumAt(args[2], 1), SumAt(args[2], 2)>>)

(* the same with the slash as separator *)
PassingSlashSummed ==
    (args[1] = "/" /\ pc = "game" /\ game_ids = <<>> /\ faults = 0) =>
        committed[1][1].completions_attempts = CompositeToken("/", <<SumAt(args[2], 1), SumAt(args[2], 2)>>)

(* C27: when the extractor returns, it returns six lists in the order of   *)
(* the categories; the list of the group's category holds one record per   *)
(* athlete entry, in order, with the athlete's identity and each field     *)
(* taken from the position of the stats array the index map names (null    *)
(* when the array is shorter); the five other lists are empty.             *)
C27_IndexMap ==
    (ret # Pending /\ ~IsRaised(ret)) =>
        LET g == GroupOf(args[1])
            c == CategoryIndex(g.name)
        IN /\ Len(ret.v) = 6
           /\ \A d \in 1..6 : d # c => ret.v[d] = <<>>
           /\ Len(ret.v[c]) = Len(g.athletes)
           /\ \A a \in 1..Len(g.athletes) :
                  /\ ret.v[c][a].player_id = g.athletes[a].id
                  /\ ret.v[c][a].team_id = args[1][1].team_id
                  /\ \A m \in ClaimedIndexMap(c) : ret.v[c][a][m[1]] = TokenAt(g.athletes[a].stats, m[2])

C27_Witness ==
    /\ ret # Pending /\ ~IsRaised(ret)
    /\ GroupOf(args[1]).name = "rushing"
    /\ Len(GroupOf(args[1]).athletes[1].stats) = 4
    /\ ret.v[2][1].rushing_touchdowns = IntV(4)
    /\ ret.v[2][1].longest_run = None
    /\ ret.v[2][2].longest_run = IntV(5)

(* C28: the writes and commits of one game come in the order of the six    *)
(* categories, each batch closed by its own commit or by a rollback; after *)
(* the rollback of category k of a game nothing more is written for that   *)
(* game, no batch from k on is committed, and every non-empty batch before *)
(* k was committed and its players' rows are in the committed tables.      *)
C28_FixedOrderPartial ==
    /\ \A i \in 1..Len(events) : \A j \in (i + 1)..Len(events) :
           (IsOp(i, BatchOps) /\ IsOp(j, BatchOps) /\ events[i].a = events[j].a) =>
               /\ events[i].b <= events[j].b
               /\ events[i].b = events[j].b => IsOp(i, {"write"})
    /\ \A i \in 1..Len(events) : IsOp(i, {"rollback"}) =>
           /\ \A j \in (i + 1)..Len(events) : IsOp(j, BatchOps) => events[j].a # events[i].a
           /\ \A d \in events[i].b..6 : \A j \in 1..Len(events) : events[j] # Ev("commit", events[i].a, d)
           /\ \A d \in 1..(events[i].b - 1) : BatchPlayers(events[i].a, d) # {} =>
                  /\ \E j \in 1..(i - 1) : events[j] = Ev("commit", events[i].a, d)
                  /\ \A pid \in BatchPlayers(events[i].a, d) : RowsOf(committed[d], pid) # <<>>

C28_Witness ==
    /\ \E i \in 4..Len(events) :
           /\ events[i] = Ev("rollback", 2, 4)
           /\ events[i - 1] = Ev("write", 2, 4)
           /\ \A j \in 1..(i - 1) : ~IsOp(j, {"commit"}) \/ events[j].a = 2
    /\ \A d \in 1..3 : committed[d] # <<>>
    /\ \A d \in 4..6 : committed[d] = <<>>
    /\ pc = "completed"

(* C29: a run whose wipe failed is aborted with the error raised to the    *)
(* caller, it has discovered, fetched and written nothing, and the tables  *)
(* are as they were when it was called; whatever a run discovers, fetches  *)
(* or writes comes after its committed wipe.                               *)
C29_ResetFailureAborts ==
    /\ (\E i \in 1..Len(events) : IsOp(i, {"wipe_fail"})) =>
           /\ pc = "aborted"
           /\ IsRaised(ret)
           /\ Len(events) = 1
           /\ committed = startTables
           /\ working = committed
    /\ \A i \in 1..Len(events) : IsOp(i, {"discover", "fetch", "fetch_fail", "write", "commit", "rollback"}) =>
           /\ events[1].op = "wipe_commit"
           /\ \A j \in 1..Len(events) : ~IsOp(j, {"wipe_fail"})

C29_Witness ==
    /\ runs = 2
    /\ Len(events) = 1 /\ IsOp(1, {"wipe_fail"})
    /\ pc = "aborted"
    /\ \A c \in 1..6 : committed[c] # <<>>
    /\ committed = startTables

(* C30: while the wipe runs the committed tables are those of the start of *)
(* the run; a step of the wipe leaves the committed tables as they were or *)
(* leaves all six empty, and a step in which a DELETE or the commit fails  *)
(* leaves them as they were, discards the deletions already issued and     *)
(* raises the error.                                                       *)
C30_WipeAllOrNothing ==
    /\ [](pc = "wipe" => committed = startTables)
    /\ [][pc = "wipe" =>
            /\ committed' = committed \/ committed' = EmptyTables
            /\ faults' = faults + 1 => (committed' = committed /\ working' = committed /\ IsRaised(ret') /\ pc' = "aborted")]_vars

C30_Witness ==
    /\ events = <<Ev("wipe_fail", 4, 0)>>
    /\ pc = "aborted"
    /\ \A c \in 1..6 : committed[c] # <<>> /\ working[c] = committed[c]
    /\ IsRaised(ret)

(* C31: a step of insert_*_stats for category c that does not fail leaves   *)
(* the other five tables as they were, committed and as seen through the   *)
(* connection; the ingestion of a record of player p leaves every row of   *)
(* another player in table c in place and unchanged, adds at most rows of  *)
(* p and commits nothing; the commit of the batch changes in the committed *)
(* table c only rows of the players of the batch; a step that fails leaves *)
(* the committed tables as they were.                                      *)
C31_FrameEffect ==
    [][pc = "insert" =>
          /\ faults' # faults => committed' = committed
          /\ faults' = faults =>
                /\ \A c \in 1..6 : c # cat => (working'[c] = working[c] /\ committed'[c] = committed[c])
                /\ idx <= Len(stats[cat]) =>
                      /\ committed' = committed
                      /\ Len(working'[cat]) >= Len(working[cat])
                      /\ \A i \in 1..Len(working[cat]) :
                             working[cat][i].player_id # stats[cat][idx].player_id => working'[cat][i] = working[cat][i]
                      /\ \A i \in (Len(working[cat]) + 1)..Len(working'[cat]) :
                             working'[cat][i].player_id = stats[cat][idx].player_id
                /\ idx > Len(stats[cat]) =>
                      \A pid \in PlayersOf(committed[cat]) \cup PlayersOf(committed'[cat]) :
                          pid \notin PlayersOf(stats[cat]) => RowsOf(committed'[cat], pid) = RowsOf(committed[cat], pid)]_vars

C31_Witness ==
    /\ args = <<5, <<P1, P1>>>>
    /\ pc = "insert"
    /\ idx = 3
    /\ processed = 2
    /\ \A c \in 1..6 : committed[c] # <<>> /\ (c # 5 => working[c] = committed[c])
    /\ RowsOf(committed[5], P1) = <<>>
    /\ Len(RowsOf(working[5], P1)) = 1
    /\ RowsOf(working[5], P1)[1].total_tackles = IntV(2)
    /\ RowsOf(committed[5], P2) # <<>>
    /\ RowsOf(working[5], P2) = RowsOf(committed[5], P2)

(* C32: in every category the step of insert_*_stats on a record whose     *)
(* player_id is null does not fail and changes neither the tables nor the  *)
(* processed counter, and the loop goes on with the next record; no table  *)
(* ever holds a row with a null player_id; while a batch is ingested the   *)
(* table seen through the connection is the committed one with the records *)
(* before the current one that carry an id merged in, and processed is     *)
(* their number; the commit of the batch stores the merge of all records   *)
(* of the batch that carry an id, and their number is the returned count.  *)
C32_NullIdSkipped ==
    /\ [][(pc = "insert" /\ idx <= Len(stats[cat]) /\ stats[cat][idx].player_id = None) =>
             /\ working' = working
             /\ committed' = committed
             /\ processed' = processed
             /\ faults' = faults
             /\ pc' = "insert" /\ cat' = cat /\ stats' = stats /\ idx' = idx + 1]_vars
    /\ [](\A c \in 1..6 : None \notin PlayersOf(working[c]) \cup PlayersOf(committed[c]))
    /\ [](pc = "insert" =>
             /\ processed = Len(WithId(SubSeq(stats[cat], 1, idx - 1)))
             /\ working[cat] = MergeBatch(cat, committed[cat], WithId(SubSeq(stats[cat], 1, idx - 1))))
    /\ [][(pc = "insert" /\ idx > Len(stats[cat]) /\ faults' = faults) =>
             /\ committed'[cat] = MergeBatch(cat, committed[cat], WithId(stats[cat]))
             /\ results'[cat] = Len(WithId(stats[cat]))]_vars

C32_Witness ==
    /\ args = <<1, <<P1, None, P2>>>>
    /\ pc = "game"
    /\ faults = 0
    /\ results[1] = 2
    /\ events = <<Ev("write", 3, 1), Ev("write", 3, 1), Ev("commit", 3, 1)>>
    /\ Len(committed[1]) = 2
    /\ RowsOf(committed[1], P1) # <<>> /\ RowsOf(committed[1], P2) # <<>>
    /\ RowsOf(committed[1], P1)[1].passing_yards = IntV(1022)
    /\ committed[5] # <<>>

====
